---- MODULE Spec2Model ----
(***************************************************************************)
(* Verification model of the constitution_engine kernel:                   *)
(*   - invariants/spec_action_gating.py  (standalone action-class gate)    *)
(*   - invariants/rules.py               (pure invariant rules)            *)
(*   - invariants/validate.py            (store-based validators)          *)
(*   - runtime/store.py                  (artifact store)                  *)
(*   - runtime/in_memory_store.py        (lock-guarded artifact store)     *)
(*   - models/episode.py, intake/act.py, intake/outcome_log.py             *)
(*   - invariants/provider_rules.py, intake/provider_adapter_v1.py         *)
(*                                                                         *)
(* Scalars of [0,1] are written in hundredths (0.4 is 40); the tertile     *)
(* thresholds 1/3 and 2/3 are compared exactly as 3*x < 100 and            *)
(* 3*x < 200.  Python None is a tagged value; strings are TLA+ strings.    *)
(***************************************************************************)
EXTENDS Integers, Sequences, FiniteSets, TLC

VARIABLES
    gin,          \* the call made on a pure function, with its arguments; under
                  \* concurrent callers, each caller's position and locals
    gout,         \* the result of a gate call, NoGate before it returns
    data,         \* InMemoryArtifactStore._data : type -> (id -> artifact)
    ids_by_type,  \* InMemoryArtifactStore._ids_by_type : type -> sequence of ids
    ims,          \* in_memory_store.InMemoryArtifactStore._data, with its key order
    minted,       \* number of ids new_id() has produced so far, per prefix
    report        \* result of the last validator call on the current store

vars == <<gin, gout, data, ids_by_type, ims, minted, report>>


(***************************************************************************)
(* Generic helpers                                                         *)
(***************************************************************************)
Range(s) == {s[i] : i \in 1..Len(s)}

RECURSIVE FlattenSeq(_)
FlattenSeq(ss) == IF ss = <<>> THEN <<>> ELSE Head(ss) \o FlattenSeq(Tail(ss))

\* Python None for Optional[...] values, and a wrapper for present values.
None == [none |-> TRUE]
Some(v) == [none |-> FALSE, v |-> v]
IsNone(x) == x.none

\* str.strip() and str.lower() on the strings the model uses.
Strip(s) ==
    CASE s = "   " -> ""
      [] s = " commit " -> "commit"
      [] OTHER -> s

Lower(s) ==
    CASE s = "COMMIT" -> "commit"
      [] s = "Probe" -> "probe"
      [] OTHER -> s

(***************************************************************************)
(* invariants/spec_action_gating.py                                        *)
(***************************************************************************)
Level3 == {"LOW", "MED", "HIGH"}
GateActionClass == {"PROBE", "LIMITED", "COMMIT"}
GovernanceMode == {"ADVISORY_ONLY", "EXTENDED_ALLOWED"}
GateRiskPosture == {"DEFAULT", "CONSERVATIVE"}

\* LOW < MED < HIGH
LevelRank(l) == CASE l = "LOW" -> 0 [] l = "MED" -> 1 [] l = "HIGH" -> 2

_clamp01(x) == IF x < 0 THEN 0 ELSE IF x > 100 THEN 100 ELSE x

band_scalar(x) ==
    IF 3 * x < 100 THEN "LOW"
    ELSE IF 3 * x < 200 THEN "MED"
    ELSE "HIGH"

impact_level(impact) == band_scalar(_clamp01(impact))
uncertainty_level(unc) == band_scalar(_clamp01(unc))
reversibility_level(rev) == band_scalar(_clamp01(rev))

derived_riskiness(imp, rev) ==
    IF imp = "HIGH" /\ rev = "LOW" THEN "HIGH"
    ELSE IF imp = "LOW" /\ rev = "HIGH" THEN "LOW"
    ELSE "MED"

\* mutant: the posture tightening is dropped
gate_allowed_action_classes_noposture(risk, unc, posture) ==
    IF risk = "LOW" THEN {"PROBE", "LIMITED", "COMMIT"}
    ELSE IF risk = "MED" THEN (IF unc = "HIGH" THEN {"PROBE"} ELSE {"PROBE", "LIMITED"})
    ELSE (IF unc # "LOW" THEN {"PROBE"} ELSE {"PROBE", "LIMITED"})

\* spec_action_gating.allowed_action_classes
gate_allowed_action_classes(risk, unc, posture) ==
    LET baseline ==
            IF risk = "LOW" THEN {"PROBE", "LIMITED", "COMMIT"}
            ELSE IF risk = "MED"
                 THEN (IF unc = "HIGH" THEN {"PROBE"} ELSE {"PROBE", "LIMITED"})
                 ELSE (IF unc # "LOW" THEN {"PROBE"} ELSE {"PROBE", "LIMITED"})
    IN  IF posture = "CONSERVATIVE" /\ "COMMIT" \in baseline
        THEN baseline \ {"COMMIT"}
        ELSE baseline

\* mutant: the subset check against the declared scope is dropped
override_is_valid_nosubset(orientation, scope_used) ==
    IF orientation.governance_mode # "EXTENDED_ALLOWED" THEN FALSE
    ELSE IF IsNone(orientation.override_scope) \/ orientation.override_scope.v = {} THEN FALSE
    ELSE IF IsNone(orientation.override_rationale)
            \/ orientation.override_rationale.v = ""
            \/ Strip(orientation.override_rationale.v) = "" THEN FALSE
    ELSE IF IsNone(scope_used) \/ scope_used.v = {} THEN FALSE
    ELSE TRUE

\* override_is_valid: the boolean of the returned (ok, message) pair
override_is_valid(orientation, scope_used) ==
    IF orientation.governance_mode # "EXTENDED_ALLOWED" THEN FALSE
    ELSE IF IsNone(orientation.override_scope) \/ orientation.override_scope.v = {} THEN FALSE
    ELSE IF IsNone(orientation.override_rationale)
            \/ orientation.override_rationale.v = ""
            \/ Strip(orientation.override_rationale.v) = "" THEN FALSE
    ELSE IF IsNone(scope_used) \/ scope_used.v = {} THEN FALSE
    ELSE IF ~(scope_used.v \subseteq orientation.override_scope.v) THEN FALSE
    ELSE TRUE

\* mutant: requires_override is coupled to the availability of an override
evaluate_option_legality_coupled(option, orientation, override_scope_used) ==
    IF option.dependencies = <<>>
    THEN [allowed |-> FALSE, requires_override |-> FALSE, reason |-> "invalid option"]
    ELSE
    LET imp == impact_level(option.impact)
        rev == reversibility_level(option.reversibility)
        unc == uncertainty_level(option.uncertainty)
        risk == derived_riskiness(imp, rev)
        allowed == gate_allowed_action_classes(risk, unc, orientation.risk_posture)
    IN  IF option.action_class \in allowed
        THEN [allowed |-> TRUE, requires_override |-> FALSE, reason |-> "allowed by gate"]
        ELSE IF override_is_valid(orientation, override_scope_used)
        THEN [allowed |-> TRUE, requires_override |-> FALSE, reason |-> "allowed only by override"]
        ELSE [allowed |-> FALSE, requires_override |-> TRUE, reason |-> "disallowed"]

\* mutant: the dependency check comes after the override path
evaluate_option_legality_depslast(option, orientation, override_scope_used) ==
    LET imp == impact_level(option.impact)
        rev == reversibility_level(option.reversibility)
        unc == uncertainty_level(option.uncertainty)
        risk == derived_riskiness(imp, rev)
        allowed == gate_allowed_action_classes(risk, unc, orientation.risk_posture)
    IN  IF option.action_class \in allowed /\ option.dependencies # <<>>
        THEN [allowed |-> TRUE, requires_override |-> FALSE, reason |-> "allowed by gate"]
        ELSE IF override_is_valid(orientation, override_scope_used)
        THEN [allowed |-> TRUE, requires_override |-> TRUE, reason |-> "allowed only by override"]
        ELSE IF option.dependencies = <<>>
        THEN [allowed |-> FALSE, requires_override |-> FALSE, reason |-> "invalid option"]
        ELSE [allowed |-> FALSE, requires_override |-> TRUE, reason |-> "disallowed"]

\* evaluate_option_legality: (is_allowed, requires_override, reason)
evaluate_option_legality(option, orientation, override_scope_used) ==
    IF option.dependencies = <<>>
    THEN [allowed |-> FALSE, requires_override |-> FALSE, reason |-> "invalid option"]
    ELSE
    LET imp == impact_level(option.impact)
        rev == reversibility_level(option.reversibility)
        unc == uncertainty_level(option.uncertainty)
        risk == derived_riskiness(imp, rev)
        allowed == gate_allowed_action_classes(risk, unc, orientation.risk_posture)
    IN  IF option.action_class \in allowed
        THEN [allowed |-> TRUE, requires_override |-> FALSE, reason |-> "allowed by gate"]
        ELSE IF override_is_valid(orientation, override_scope_used)
        THEN [allowed |-> TRUE, requires_override |-> TRUE, reason |-> "allowed only by override"]
        ELSE [allowed |-> FALSE, requires_override |-> TRUE, reason |-> "disallowed"]

(***************************************************************************)
(* invariants/rules.py : the action-class gate the invariant engine uses   *)
(***************************************************************************)
ImpactLevel == {"low", "med", "high"}
ReversibilityLevel == {"high", "med", "low"}
UncertaintyLevel == {"low", "med", "high", "unknown"}
ActionClass == {"probe", "limited", "commit"}

compute_riskiness(impact, reversibility) ==
    IF impact = "high" /\ reversibility = "low" THEN "high"
    ELSE IF impact = "low" /\ reversibility = "high" THEN "low"
    ELSE IF impact = "high" /\ reversibility \in {"med", "low"} THEN "high"
    ELSE IF reversibility = "low" /\ impact \in {"med", "high"} THEN "high"
    ELSE IF impact = "low" /\ reversibility \in {"med", "high"} THEN "low"
    ELSE "med"

\* rules.allowed_action_classes
allowed_action_classes(impact, reversibility, uncertainty) ==
    LET risk == compute_riskiness(impact, reversibility)
    IN  IF risk = "high"
        THEN (IF uncertainty # "low" THEN {"probe"} ELSE {"probe", "limited", "commit"})
        ELSE IF risk = "med"
        THEN (IF uncertainty \in {"high", "unknown"} THEN {"probe"} ELSE {"probe", "limited"})
        ELSE {"probe", "limited", "commit"}

(***************************************************************************)
(* Inputs of the gate functions                                            *)
(***************************************************************************)
\* Option(impact, reversibility, uncertainty, action_class, dependencies): scalars
\* on both sides of each band edge and outside [0, 1]
GateOptions ==
    [impact : {10, 34, 67, 110}, reversibility : {-10, 33, 50, 90},
     uncertainty : {10, 33, 66, 67}, action_class : GateActionClass,
     dependencies : {<<>>, <<"obs:1", "interp:2">>}]

\* override_scope_used arguments
UsedScopes == {None, Some({}), Some({"A"}), Some({"C"}), Some({"A", "C"})}

\* Orientation(governance_mode, risk_posture, override_scope, override_rationale)
Orientations ==
    [governance_mode : GovernanceMode, risk_posture : GateRiskPosture,
     override_scope : {None, Some({}), Some({"A", "B"})},
     override_rationale : {None, Some(""), Some("   "), Some("Emergency")}]

NoGate == [op |-> "none"]

(***************************************************************************)
(* Actions of the gate specification: each applies one gate function to    *)
(* inputs drawn from the sets above and records inputs and result.         *)
(***************************************************************************)
\* the calls made on the gate, one per input drawn
GateCalls ==
    {[op |-> "legality", option |-> option, orientation |-> orientation,
      override_scope_used |-> scope_used] :
        option \in GateOptions, orientation \in Orientations, scope_used \in UsedScopes}
    \cup
    {[op |-> "override", orientation |-> orientation, override_scope_used |-> scope_used] :
        orientation \in Orientations, scope_used \in UsedScopes}
    \cup
    {[op |-> "allowed", risk |-> risk, unc |-> unc] : risk \in Level3, unc \in Level3}
    \cup
    {[op |-> "engine_allowed", impact |-> impact, reversibility |-> reversibility,
      uncertainty |-> uncertainty] :
        impact \in ImpactLevel, reversibility \in ReversibilityLevel,
        uncertainty \in UncertaintyLevel}
    \cup
    {[op |-> "sweep", rev |-> rev, unc |-> unc, posture |-> posture] :
        rev \in Level3, unc \in Level3, posture \in GateRiskPosture}
    \cup
    {[op |-> "engine_sweep", rev |-> rev, unc |-> unc] :
        rev \in ReversibilityLevel, unc \in UncertaintyLevel}

\* evaluate_option_legality(option, orientation, override_scope_used)
EvaluateOptionLegality ==
    /\ gin.op = "legality" /\ gout = NoGate
    /\ gout' = [op |-> "legality",
                result |-> evaluate_option_legality(gin.option, gin.orientation,
                                                    gin.override_scope_used)]
    /\ UNCHANGED <<ims, gin, data, ids_by_type, minted, report>>

\* override_is_valid(orientation, override_scope_used)
OverrideIsValid ==
    /\ gin.op = "override" /\ gout = NoGate
    /\ gout' = [op |-> "override",
                ok |-> override_is_valid(gin.orientation, gin.override_scope_used)]
    /\ UNCHANGED <<ims, gin, data, ids_by_type, minted, report>>

\* allowed_action_classes(risk, unc, posture) of the standalone gate, called for
\* one (risk, unc) pair under both postures
GateAllowedActionClasses ==
    /\ gin.op = "allowed" /\ gout = NoGate
    /\ gout' = [op |-> "allowed",
                by_posture |-> [p \in GateRiskPosture |->
                                    gate_allowed_action_classes(gin.risk, gin.unc, p)]]
    /\ UNCHANGED <<ims, gin, data, ids_by_type, minted, report>>

\* rules.allowed_action_classes(impact, reversibility, uncertainty)
EngineAllowedActionClasses ==
    /\ gin.op = "engine_allowed" /\ gout = NoGate
    /\ gout' = [op |-> "engine_allowed",
                risk |-> compute_riskiness(gin.impact, gin.reversibility),
                allowed |-> allowed_action_classes(gin.impact, gin.reversibility,
                                                   gin.uncertainty)]
    /\ UNCHANGED <<ims, gin, data, ids_by_type, minted, report>>

\* derived_riskiness then allowed_action_classes, for each impact band at a
\* fixed reversibility band, uncertainty band and posture
GateImpactSweep ==
    /\ gin.op = "sweep" /\ gout = NoGate
    /\ gout' = [op |-> "sweep",
                by_impact |-> [i \in Level3 |->
                    gate_allowed_action_classes(derived_riskiness(i, gin.rev), gin.unc,
                                                gin.posture)]]
    /\ UNCHANGED <<ims, gin, data, ids_by_type, minted, report>>

\* compute_riskiness then allowed_action_classes of the engine, for each impact
\* level at a fixed reversibility level and uncertainty level
EngineImpactSweep ==
    /\ gin.op = "engine_sweep" /\ gout = NoGate
    /\ gout' = [op |-> "engine_sweep",
                by_impact |-> [i \in ImpactLevel |->
                                   allowed_action_classes(i, gin.rev, gin.unc)]]
    /\ UNCHANGED <<ims, gin, data, ids_by_type, minted, report>>

(***************************************************************************)
(* runtime/store.py : InMemoryArtifactStore (exported as ArtifactStore)    *)
(*                                                                         *)
(* An artifact is a record whose cls field names its class.  A store value *)
(* is [data, ids_by_type]; data[cls] is the function from the ids stored   *)
(* for that class to the stored artifact.                                  *)
(***************************************************************************)
Types == {"DecisionEpisode", "Option", "Recommendation", "ChoiceRecord", "Outcome",
          "ReviewRecord", "CalibrationNote", "Observation"}

\* the "*_id" dataclass fields of each artifact class
IdAttrs(cls) ==
    CASE cls = "DecisionEpisode" -> {"episode_id", "chosen_option_id"}
      [] cls = "Option" -> {"option_id", "orientation_id"}
      [] cls = "Recommendation" -> {"recommendation_id", "orientation_id"}
      [] cls = "ChoiceRecord" -> {"episode_id", "recommendation_id", "option_id", "choice_id"}
      [] cls = "Outcome" -> {"outcome_id", "recommendation_id", "chosen_option_id"}
      [] cls = "ReviewRecord" -> {"review_id", "episode_id"}
      [] cls = "CalibrationNote" -> {"calibration_id", "episode_id", "review_id"}
      [] cls = "Observation" -> {"observation_id"}

\* the "*_id" fields declared Optional[str]
OptionalAttrs ==
    {<<"DecisionEpisode", "chosen_option_id">>, <<"Option", "orientation_id">>,
     <<"Outcome", "recommendation_id">>, <<"Outcome", "chosen_option_id">>,
     <<"ReviewRecord", "episode_id">>}

\* getattr(obj, attr) when it is a non-empty str, "" otherwise
AttrStr(obj, attr) ==
    IF attr \notin IdAttrs(obj.cls) THEN ""
    ELSE IF <<obj.cls, attr>> \in OptionalAttrs
    THEN (IF IsNone(obj[attr]) THEN "" ELSE obj[attr].v)
    ELSE obj[attr]

\* f"{type(obj).__name__.lower()}_id"
PreferredAttr(cls) ==
    CASE cls = "DecisionEpisode" -> "decisionepisode_id"
      [] cls = "Option" -> "option_id"
      [] cls = "Recommendation" -> "recommendation_id"
      [] cls = "ChoiceRecord" -> "choicerecord_id"
      [] cls = "Outcome" -> "outcome_id"
      [] cls = "ReviewRecord" -> "reviewrecord_id"
      [] cls = "CalibrationNote" -> "calibrationnote_id"
      [] cls = "Observation" -> "observation_id"

CommonPrimaries == <<"review_id", "recommendation_id", "option_id", "orientation_id">>

\* every "*_id" field name, sorted by (len(name), name)
AttrsByLenThenName ==
    <<"choice_id", "option_id", "review_id", "episode_id", "outcome_id",
      "calibration_id", "observation_id", "orientation_id", "chosen_option_id",
      "recommendation_id">>

RECURSIVE FirstNonEmptyAttr(_, _)
FirstNonEmptyAttr(obj, attrs) ==
    IF attrs = <<>> THEN ""
    ELSE IF AttrStr(obj, Head(attrs)) # "" THEN AttrStr(obj, Head(attrs))
    ELSE FirstNonEmptyAttr(obj, Tail(attrs))

\* store._infer_primary_id; "" stands for the ValueError it raises
_infer_primary_id(obj) ==
    IF AttrStr(obj, PreferredAttr(obj.cls)) # ""
    THEN AttrStr(obj, PreferredAttr(obj.cls))
    ELSE IF FirstNonEmptyAttr(obj, CommonPrimaries) # ""
    THEN FirstNonEmptyAttr(obj, CommonPrimaries)
    ELSE IF AttrStr(obj, "episode_id") # ""
    THEN AttrStr(obj, "episode_id")
    ELSE FirstNonEmptyAttr(obj, AttrsByLenThenName)

EmptyStore == [data |-> [t \in Types |-> <<>>], ids_by_type |-> [t \in Types |-> <<>>]]

\* InMemoryArtifactStore.put: the store after put(obj) (unchanged when
\* _infer_primary_id raises)
put(st, obj) ==
    LET obj_id == _infer_primary_id(obj)
        tk == obj.cls
    IN  IF obj_id = "" THEN st
        ELSE [data |-> [st.data EXCEPT ![tk] = (obj_id :> obj) @@ @],
              ids_by_type |-> [st.ids_by_type EXCEPT ![tk] =
                                  IF obj_id \in Range(@) THEN @ ELSE Append(@, obj_id)]]

has(st, cls, obj_id) == obj_id \in DOMAIN st.data[cls]

\* InMemoryArtifactStore.get: Some(artifact) or None
get(st, cls, obj_id) == IF has(st, cls, obj_id) THEN Some(st.data[cls][obj_id]) ELSE None

list_ids(st, cls) == st.ids_by_type[cls]

ResolveError(cls, obj_id) == [artifact_type |-> cls, artifact_id |-> obj_id]

\* mutant: an id that occurs a second time in ids is skipped
resolve_many_once(st, cls, ids) ==
    [found |-> FlattenSeq([i \in 1..Len(ids) |->
                  IF has(st, cls, ids[i]) /\ \A j \in 1..(i - 1) : ids[j] # ids[i]
                  THEN <<st.data[cls][ids[i]]>> ELSE <<>>]),
     errors |-> FlattenSeq([i \in 1..Len(ids) |->
                  IF has(st, cls, ids[i]) THEN <<>> ELSE <<ResolveError(cls, ids[i])>>])]

\* InMemoryArtifactStore.resolve_many: [found, errors]
resolve_many(st, cls, ids) ==
    [found |-> FlattenSeq([i \in 1..Len(ids) |->
                  IF has(st, cls, ids[i]) THEN <<st.data[cls][ids[i]]>> ELSE <<>>]),
     errors |-> FlattenSeq([i \in 1..Len(ids) |->
                  IF has(st, cls, ids[i]) THEN <<>> ELSE <<ResolveError(cls, ids[i])>>])]

(***************************************************************************)
(* runtime/in_memory_store.py : the lock-guarded InMemoryArtifactStore.    *)
(* _data maps type name -> (id -> artifact); the store value keeps the     *)
(* dict's key order (insertion order) in ids_by_type.                      *)
(***************************************************************************)
\* the "*_id" dataclass fields of each class, in declaration order
DataclassIdFields(cls) ==
    CASE cls = "DecisionEpisode" -> <<"episode_id", "chosen_option_id">>
      [] cls = "Option" -> <<"option_id", "orientation_id">>
      [] cls = "Recommendation" -> <<"recommendation_id", "orientation_id">>
      [] cls = "ChoiceRecord" -> <<"episode_id", "recommendation_id", "option_id", "choice_id">>
      [] cls = "Outcome" -> <<"outcome_id", "recommendation_id", "chosen_option_id">>
      [] cls = "ReviewRecord" -> <<"review_id", "episode_id">>
      [] cls = "CalibrationNote" -> <<"calibration_id", "episode_id", "review_id">>
      [] cls = "Observation" -> <<"observation_id">>

\* in_memory_store._infer_primary_id; "" stands for the KeyError it raises
ims_infer_primary_id(obj) == FirstNonEmptyAttr(obj, DataclassIdFields(obj.cls))

\* in_memory_store.InMemoryArtifactStore.put
ims_put(st, obj) ==
    LET obj_id == ims_infer_primary_id(obj)
    IN  IF obj_id = "" THEN st
        ELSE [data |-> [st.data EXCEPT ![obj.cls] = (obj_id :> obj) @@ @],
              ids_by_type |-> [st.ids_by_type EXCEPT ![obj.cls] =
                                  IF obj_id \in Range(@) THEN @ ELSE Append(@, obj_id)]]

\* in_memory_store.InMemoryArtifactStore.get: Some(artifact) or None
ims_get(st, cls, obj_id) ==
    IF obj_id \in DOMAIN st.data[cls] THEN Some(st.data[cls][obj_id]) ELSE None

\* in_memory_store.InMemoryArtifactStore.resolve_many: [found, errors]
ims_resolve_many(st, cls, ids) ==
    [found |-> FlattenSeq([i \in 1..Len(ids) |->
                  IF IsNone(ims_get(st, cls, ids[i])) THEN <<>>
                  ELSE <<ims_get(st, cls, ids[i]).v>>]),
     errors |-> FlattenSeq([i \in 1..Len(ids) |->
                  IF IsNone(ims_get(st, cls, ids[i])) THEN <<ResolveError(cls, ids[i])>>
                  ELSE <<>>])]

(***************************************************************************)
(* models/episode.py : DecisionEpisode                                     *)
(* Of the id lists the validators read: observation, option,               *)
(* recommendation, choice, outcome, review and calibration ids.            *)
(* meta_acted is bool(meta.get("acted", False)).                           *)
(***************************************************************************)
\* _append_unique(seq, item) for one item
_append_unique(seq, it) ==
    IF it # "" /\ it \notin Range(seq) THEN Append(seq, it) ELSE seq

\* DecisionEpisode(episode_id=...) with every other field at its default
DecisionEpisode(episode_id) ==
    [cls |-> "DecisionEpisode", episode_id |-> episode_id,
     observation_ids |-> <<>>, option_ids |-> <<>>, recommendation_ids |-> <<>>,
     choice_ids |-> <<>>, outcome_ids |-> <<>>, review_ids |-> <<>>,
     calibration_ids |-> <<>>,
     acted |-> FALSE, chosen_option_id |-> None, meta_acted |-> FALSE]

\* a variant of _append_unique that puts a new item in front
RECURSIVE _append_unique_front(_, _)
_append_unique_front(seq, items) ==
    IF items = <<>> THEN seq
    ELSE _append_unique_front(
             IF Head(items) # "" /\ Head(items) \notin Range(seq) THEN <<Head(items)>> \o seq
             ELSE seq,
             Tail(items))

\* _append_unique(seq, *items): each item in turn, skipping "" and items seen
RECURSIVE _append_unique_items(_, _)
_append_unique_items(seq, items) ==
    IF items = <<>> THEN seq
    ELSE _append_unique_items(_append_unique(seq, Head(items)), Tail(items))

\* add_options / add_recommendations / add_outcomes for one id
add_options(ep, id) == [ep EXCEPT !.option_ids = _append_unique(@, id)]
add_recommendations(ep, id) == [ep EXCEPT !.recommendation_ids = _append_unique(@, id)]
add_outcomes(ep, id) == [ep EXCEPT !.outcome_ids = _append_unique(@, id)]

\* with_meta(acted=b)
with_meta_acted(ep, b) == [ep EXCEPT !.meta_acted = b]

\* a variant of mark_acted's refusal that only rejects an empty option id
mark_acted_raises_empty(ep, chosen) == ~IsNone(chosen) /\ chosen.v = ""

\* mark_acted raises ValueError for these arguments
mark_acted_raises(ep, chosen) ==
    \/ (~IsNone(chosen) /\ chosen.v = "")
    \/ /\ ~IsNone(chosen) /\ chosen.v # ""
       /\ ep.acted
       /\ ~IsNone(ep.chosen_option_id) /\ ep.chosen_option_id.v # ""
       /\ ep.chosen_option_id.v # chosen.v

\* a variant of mark_acted that records the option and leaves acted as it is
mark_acted_unmarked(ep, chosen) == [ep EXCEPT !.chosen_option_id = chosen]

\* mark_acted(chosen_option_id=chosen) when it does not raise
mark_acted(ep, chosen) ==
    [ep EXCEPT !.acted = TRUE,
               !.chosen_option_id = IF ~IsNone(chosen) /\ chosen.v # "" THEN chosen ELSE @]

\* log_choice(choice_id) for a non-empty id (an empty id raises ValueError)
log_choice(ep, id) == [ep EXCEPT !.choice_ids = _append_unique(@, id)]

latest_recommendation_id(ep) ==
    IF ep.recommendation_ids = <<>> THEN None
    ELSE Some(ep.recommendation_ids[Len(ep.recommendation_ids)])

latest_review_id(ep) ==
    IF ep.review_ids = <<>> THEN None ELSE Some(ep.review_ids[Len(ep.review_ids)])

(***************************************************************************)
(* invariants/rules.py : the pure invariant rules                           *)
(*                                                                         *)
(* Option, Recommendation, Observation and Evidence values are records     *)
(* with the fields the rules read.  Scalars are in hundredths.  An          *)
(* action_class is None, a str (AcStr) or an ActionClass member (AcEnum).   *)
(* An InvariantViolation is [rule, about]; about lists the ids its message  *)
(* names.                                                                   *)
(***************************************************************************)
InvariantViolation(rule, about) == [rule |-> rule, about |-> about]

AcStr(s) == [none |-> FALSE, v |-> s, enum |-> FALSE]
AcEnum(s) == [none |-> FALSE, v |-> s, enum |-> TRUE]

ObservationalTypes == {"fact", "measurement", "event", "testimony"}

\* the dict {x.<key>: x for x in items}: a later item replaces an earlier one
RECURSIVE ById(_, _)
ById(items, key) ==
    IF items = <<>> THEN <<>>
    ELSE LET n == Len(items)
         IN  (items[n][key] :> items[n]) @@ ById(SubSeq(items, 1, n - 1), key)

require_observations_are_observational(observations) ==
    FlattenSeq([i \in 1..Len(observations) |->
        IF observations[i].info_type \notin ObservationalTypes
        THEN <<InvariantViolation("observation_type", <<observations[i].observation_id>>)>>
        ELSE <<>>])

require_observations_have_provenance(observations) ==
    FlattenSeq([i \in 1..Len(observations) |->
        IF observations[i].raw_input_ids = <<>> /\ observations[i].evidence_ids = <<>>
        THEN <<InvariantViolation("observation_provenance", <<observations[i].observation_id>>)>>
        ELSE <<>>])

require_observations_reference_existing_evidence(observations, evidence_by_id) ==
    FlattenSeq([i \in 1..Len(observations) |->
        LET missing == SelectSeq(observations[i].evidence_ids,
                                 LAMBDA eid : eid \notin DOMAIN evidence_by_id)
        IN  IF missing # <<>>
            THEN <<InvariantViolation("observation_evidence_link",
                                      <<observations[i].observation_id>> \o missing)>>
            ELSE <<>>])

require_evidence_has_sources(evidence_items) ==
    FlattenSeq([i \in 1..Len(evidence_items) |->
        IF evidence_items[i].sources = <<>>
        THEN <<InvariantViolation("evidence_sources", <<evidence_items[i].evidence_id>>)>>
        ELSE <<>>])

\* sources is the sequence of the sources' uri strings
require_evidence_source_uris_nonempty(evidence_items) ==
    FlattenSeq([i \in 1..Len(evidence_items) |->
        FlattenSeq([j \in 1..Len(evidence_items[i].sources) |->
            IF Strip(evidence_items[i].sources[j]) = ""
            THEN <<InvariantViolation("evidence_source_uri", <<evidence_items[i].evidence_id>>)>>
            ELSE <<>>])])

require_recommendation_has_orientation(rec) ==
    IF rec.orientation_id = ""
    THEN <<InvariantViolation("recommendation_orientation", <<>>)>>
    ELSE <<>>

require_recommendation_has_ranked_options(rec) ==
    IF rec.ranked_options = <<>>
    THEN <<InvariantViolation("recommendation_ranked_options", <<>>)>>
    ELSE <<>>

require_recommendation_has_provenance(rec) ==
    IF rec.ranked_options = <<>> THEN <<>>
    ELSE IF /\ rec.evidence_ids = <<>> /\ rec.observation_ids = <<>>
            /\ rec.interpretation_ids = <<>> /\ rec.model_state_ids = <<>>
    THEN <<InvariantViolation("recommendation_provenance", <<>>)>>
    ELSE <<>>

\* [ro.option_id for ro in rec.ranked_options]
RankedOptionIds(rec) == [i \in 1..Len(rec.ranked_options) |-> rec.ranked_options[i].option_id]

require_recommendation_references_existing_options(rec, options_by_id) ==
    LET missing == SelectSeq(RankedOptionIds(rec), LAMBDA oid : oid \notin DOMAIN options_by_id)
    IN  IF rec.ranked_options = <<>> \/ missing = <<>> THEN <<>>
        ELSE <<InvariantViolation("recommendation_option_link", missing)>>

\* Recommendation.top_option_id: the option of least rank (the first such in
\* tuple order), None without ranked options
top_option_id(rec) ==
    IF rec.ranked_options = <<>> THEN None
    ELSE LET ros == rec.ranked_options
             i == CHOOSE k \in 1..Len(ros) :
                     /\ \A j \in 1..Len(ros) : ros[k].rank <= ros[j].rank
                     /\ \A j \in 1..(k - 1) : ros[j].rank > ros[k].rank
         IN  Some(ros[i].option_id)

require_recommendation_provenance_overlaps_top_option(rec, options_by_id) ==
    IF rec.ranked_options = <<>> THEN <<>>
    ELSE LET top_id == top_option_id(rec)
         IN  IF IsNone(top_id) \/ top_id.v = "" THEN <<>>
             ELSE IF top_id.v \notin DOMAIN options_by_id THEN <<>>
             ELSE LET top == options_by_id[top_id.v]
                      has_obs_overlap ==
                          Range(rec.observation_ids) \cap Range(top.observation_ids) # {}
                      has_ev_overlap ==
                          Range(rec.evidence_ids) \cap Range(top.evidence_ids) # {}
                  IN  IF ~(has_obs_overlap \/ has_ev_overlap)
                      THEN <<InvariantViolation("recommendation_provenance_overlap_top_option",
                                                <<rec.recommendation_id, top.option_id>>)>>
                      ELSE <<>>

has_upstream_references(opt) ==
    opt.observation_ids # <<>> \/ opt.interpretation_ids # <<>> \/ opt.evidence_ids # <<>>

\* the violations of one ranked EXECUTE option, in the order the code appends
ExecuteOptionViolations(rec, opt) ==
    (IF ~has_upstream_references(opt)
     THEN <<InvariantViolation("execute_option_auditability", <<opt.option_id>>)>> ELSE <<>>)
    \o (IF IsNone(opt.orientation_id) \/ opt.orientation_id.v = ""
        THEN <<InvariantViolation("execute_option_orientation", <<opt.option_id>>)>>
        ELSE IF opt.orientation_id.v # rec.orientation_id
        THEN <<InvariantViolation("execute_option_orientation_mismatch", <<opt.option_id>>)>>
        ELSE <<>>)
    \o (IF opt.uncertainties = <<>>
        THEN <<InvariantViolation("execute_option_uncertainty_required", <<opt.option_id>>)>>
        ELSE <<>>)

require_execute_options_are_auditable_and_oriented(rec, options_by_id) ==
    FlattenSeq([i \in 1..Len(rec.ranked_options) |->
        LET oid == rec.ranked_options[i].option_id
        IN  IF oid \notin DOMAIN options_by_id THEN <<>>
            ELSE IF options_by_id[oid].kind # "execute" THEN <<>>
            ELSE ExecuteOptionViolations(rec, options_by_id[oid])])

\* max(levels), for a non-empty sequence
MaxOf(levels) == CHOOSE m \in Range(levels) : \A x \in Range(levels) : x <= m

_max_uncertainty_float(opt) ==
    IF opt.uncertainties = <<>> THEN None ELSE Some(MaxOf(opt.uncertainties))

bucket_uncertainty_level(opt) ==
    LET m == _max_uncertainty_float(opt)
    IN  IF IsNone(m) THEN "unknown"
        ELSE IF m.v >= 70 THEN "high"
        ELSE IF m.v >= 30 THEN "med"
        ELSE "low"

bucket_impact_level(opt) ==
    IF IsNone(opt.impact) THEN "high"
    ELSE IF opt.impact.v >= 70 THEN "high"
    ELSE IF opt.impact.v >= 40 THEN "med"
    ELSE "low"

bucket_reversibility_level(opt) ==
    IF IsNone(opt.reversibility) THEN "low"
    ELSE IF opt.reversibility.v <= 30 THEN "low"
    ELSE IF opt.reversibility.v <= 60 THEN "med"
    ELSE "high"

\* _coerce_action_class: Some(member value) or None
_coerce_action_class(opt) ==
    IF IsNone(opt.action_class) THEN None
    ELSE IF opt.action_class.enum THEN Some(opt.action_class.v)
    ELSE IF Lower(Strip(opt.action_class.v)) \in ActionClass
    THEN Some(Lower(Strip(opt.action_class.v)))
    ELSE None

\* INV-ACT-001
require_action_class_declared(opt) ==
    IF IsNone(opt.action_class)
    THEN <<InvariantViolation("INV-ACT-001", <<opt.option_id>>)>>
    ELSE IF opt.action_class.enum THEN <<>>
    ELSE IF Lower(Strip(opt.action_class.v)) \in ActionClass THEN <<>>
    ELSE <<InvariantViolation("INV-ACT-001", <<opt.option_id>>)>>

\* override_used and "ALLOW_GATE_BYPASS" in set(override_scope_used)
gate_bypass(rec) == rec.override_used /\ "ALLOW_GATE_BYPASS" \in Range(rec.override_scope_used)

\* the gate violations of one ranked EXECUTE option
GateViolations(rec, opt) ==
    LET ac == _coerce_action_class(opt)
    IN  require_action_class_declared(opt)
        \o (IF IsNone(ac) THEN <<>>
            ELSE IF ac.v \in allowed_action_classes(bucket_impact_level(opt),
                                                    bucket_reversibility_level(opt),
                                                    bucket_uncertainty_level(opt))
            THEN <<>>
            ELSE IF gate_bypass(rec) THEN <<>>
            ELSE <<InvariantViolation("INV-ACT-002", <<opt.option_id>>)>>)

\* mutant: the gate is applied to ranked options of every kind
require_proportionate_action_v051_anykind(rec, options_by_id) ==
    FlattenSeq([i \in 1..Len(rec.ranked_options) |->
        LET oid == rec.ranked_options[i].option_id
        IN  IF oid \notin DOMAIN options_by_id THEN <<>>
            ELSE GateViolations(rec, options_by_id[oid])])

require_proportionate_action_v051(rec, options_by_id) ==
    FlattenSeq([i \in 1..Len(rec.ranked_options) |->
        LET oid == rec.ranked_options[i].option_id
        IN  IF oid \notin DOMAIN options_by_id THEN <<>>
            ELSE IF options_by_id[oid].kind # "execute" THEN <<>>
            ELSE GateViolations(rec, options_by_id[oid])])

\* use_legacy_numeric_gate keeps its default (False) in every caller
require_proportionate_action(rec, options_by_id) ==
    require_proportionate_action_v051(rec, options_by_id)

validate_observations(observations, evidence_by_id) ==
    require_observations_are_observational(observations)
    \o require_observations_have_provenance(observations)
    \o require_observations_reference_existing_evidence(observations, evidence_by_id)

validate_evidence(evidence_items) ==
    require_evidence_has_sources(evidence_items)
    \o require_evidence_source_uris_nonempty(evidence_items)

\* rules.validate_recommendation(rec, options_by_id=...)
rules_validate_recommendation(rec, options_by_id) ==
    require_recommendation_has_orientation(rec)
    \o require_recommendation_has_ranked_options(rec)
    \o require_recommendation_has_provenance(rec)
    \o require_recommendation_references_existing_options(rec, options_by_id)
    \o require_execute_options_are_auditable_and_oriented(rec, options_by_id)
    \o require_proportionate_action(rec, options_by_id)
    \o require_recommendation_provenance_overlaps_top_option(rec, options_by_id)

\* rules.validate_all (validate.validate_all delegates to it)
rules_validate_all(observations, evidence_items, options, recommendation) ==
    validate_evidence(evidence_items)
    \o validate_observations(observations, ById(evidence_items, "evidence_id"))
    \o rules_validate_recommendation(recommendation, ById(options, "option_id"))

\* INV-REV-001
require_review_exists_if_override_used(episode_id, recommendations, review_ids) ==
    IF \A i \in 1..Len(recommendations) : ~recommendations[i].override_used THEN <<>>
    ELSE IF review_ids = <<>> THEN <<InvariantViolation("INV-REV-001", <<episode_id>>)>>
    ELSE <<>>

\* the audit entry by_rec_id.get(rid): the last entry of overrides whose
\* recommendation_id is rid
AuditEntry(overrides, rid) ==
    LET idx == {i \in 1..Len(overrides) : overrides[i].recommendation_id = Some(rid)}
    IN  IF idx = {} \/ rid = "" THEN None
        ELSE Some(overrides[CHOOSE i \in idx : \A j \in idx : j <= i])

\* INV-REV-002; review.overrides is override_audit.get("overrides"): None when
\* it is missing or not a list
require_review_audits_overrides(episode_id, recommendations, review) ==
    LET overridden == SelectSeq(recommendations, LAMBDA r : r.override_used)
    IN  IF overridden = <<>> THEN <<>>
        ELSE IF IsNone(review.overrides)
        THEN <<InvariantViolation("INV-REV-002", <<episode_id, review.review_id>>)>>
        ELSE FlattenSeq([i \in 1..Len(overridden) |->
                 LET rid == overridden[i].recommendation_id
                     entry == AuditEntry(review.overrides.v, rid)
                 IN  IF IsNone(entry)
                     THEN <<InvariantViolation("INV-REV-002", <<rid>>)>>
                     ELSE IF \/ IsNone(entry.v.override_scope_used)
                             \/ entry.v.override_scope_used.v = <<>>
                             \/ IsNone(entry.v.rationale)
                             \/ Strip(entry.v.rationale.v) = ""
                     THEN <<InvariantViolation("INV-REV-002", <<rid>>)>>
                     ELSE <<>>])

(***************************************************************************)
(* invariants/validate.py : the store-based validators                      *)
(*                                                                         *)
(* A ValidationReport is [subject, violations, resolve_errors, raised];     *)
(* raised names the exception that left the call instead of a report ("" *)
(* when a report was returned).                                             *)
(***************************************************************************)
ValidationReport(subject, violations, resolve_errors) ==
    [subject |-> subject, violations |-> violations, resolve_errors |-> resolve_errors,
     raised |-> ""]

\* must_get raises KeyError for an absent id; "except ResolveError" then names
\* a class that is not an exception class, which raises TypeError in place of
\* handling the KeyError
Raised(subject) ==
    [subject |-> subject, violations |-> <<>>, resolve_errors |-> <<>>, raised |-> "TypeError"]

\* ValidationReport.ok
ok(rep) == rep.raised = "" /\ rep.violations = <<>> /\ rep.resolve_errors = <<>>

_as_missing_violations(errors) ==
    [i \in 1..Len(errors) |-> InvariantViolation("missing_reference", <<errors[i].artifact_id>>)]

_episode_acted(ep) == ep.acted \/ ep.meta_acted

\* INV-OUT-001
require_outcome_exists_if_episode_acted(episode_id, acted, has_recommendation, outcome_ids) ==
    IF ~acted THEN <<>>
    ELSE IF ~has_recommendation THEN <<>>
    ELSE IF outcome_ids # <<>> THEN <<>>
    ELSE <<InvariantViolation("INV-OUT-001", <<episode_id>>)>>

\* the violations of one Outcome: INV-OUT-002, -003, -004
OutcomeViolations(out, recommendations_by_id, options_by_id) ==
    LET rid == IF IsNone(out.recommendation_id) THEN "" ELSE out.recommendation_id.v
        oid == IF IsNone(out.chosen_option_id) THEN "" ELSE out.chosen_option_id.v
    IN  (IF rid # "" /\ rid \notin DOMAIN recommendations_by_id
         THEN <<InvariantViolation("INV-OUT-002", <<out.outcome_id, rid>>)>> ELSE <<>>)
        \o (IF oid # "" /\ oid \notin DOMAIN options_by_id
            THEN <<InvariantViolation("INV-OUT-003", <<out.outcome_id, oid>>)>> ELSE <<>>)
        \o (IF /\ rid # "" /\ oid # "" /\ rid \in DOMAIN recommendations_by_id
               /\ recommendations_by_id[rid].ranked_options # <<>>
               /\ oid \notin Range(RankedOptionIds(recommendations_by_id[rid]))
            THEN <<InvariantViolation("INV-OUT-004", <<out.outcome_id, oid, rid>>)>>
            ELSE <<>>)

validate_outcomes(outcomes, recommendations_by_id, options_by_id) ==
    FlattenSeq([i \in 1..Len(outcomes) |->
        OutcomeViolations(outcomes[i], recommendations_by_id, options_by_id)])

\* the violations of one CalibrationNote: INV-CAL-001 .. -004
CalibrationViolations(cal, episode, reviews_by_id, outcomes_by_id) ==
    (IF cal.episode_id # "" /\ cal.episode_id # episode.episode_id
     THEN <<InvariantViolation("INV-CAL-001", <<cal.calibration_id>>)>> ELSE <<>>)
    \o (IF cal.review_id = ""
        THEN <<InvariantViolation("INV-CAL-002", <<cal.calibration_id>>)>>
        ELSE IF cal.review_id \notin DOMAIN reviews_by_id
        THEN <<InvariantViolation("INV-CAL-003", <<cal.calibration_id, cal.review_id>>)>>
        ELSE <<>>)
    \o FlattenSeq([j \in 1..Len(cal.outcome_ids) |->
           IF cal.outcome_ids[j] # "" /\ cal.outcome_ids[j] \notin DOMAIN outcomes_by_id
           THEN <<InvariantViolation("INV-CAL-004", <<cal.calibration_id, cal.outcome_ids[j]>>)>>
           ELSE <<>>])

validate_calibrations(calibrations, episode, reviews_by_id, outcomes_by_id) ==
    FlattenSeq([i \in 1..Len(calibrations) |->
        CalibrationViolations(calibrations[i], episode, reviews_by_id, outcomes_by_id)])

\* INV-CHO-001.  rules.py does not define this function (validate.py imports
\* it); modelled from the specification: an acted episode must list a choice.
require_choice_exists_if_episode_acted(episode_id, acted, choice_ids) ==
    IF ~acted THEN <<>>
    ELSE IF choice_ids # <<>> THEN <<>>
    ELSE <<InvariantViolation("INV-CHO-001", <<episode_id>>)>>

\* INV-CHO-002 / INV-CHO-003 of one ChoiceRecord, from the specification
ChoiceViolations(ch, recommendations_by_id, options_by_id) ==
    IF \/ ch.recommendation_id \notin DOMAIN recommendations_by_id
       \/ ch.option_id \notin DOMAIN options_by_id
    THEN <<InvariantViolation("INV-CHO-002", <<ch.choice_id>>)>>
    ELSE IF /\ ~ch.used_override
            /\ ch.option_id \notin Range(RankedOptionIds(recommendations_by_id[ch.recommendation_id]))
    THEN <<InvariantViolation("INV-CHO-003", <<ch.choice_id>>)>>
    ELSE <<>>

\* rules.py does not define this function either; modelled from the
\* specification and the tests of INV-CHO-002 / INV-CHO-003
validate_choices(choices, recommendations_by_id, options_by_id) ==
    FlattenSeq([i \in 1..Len(choices) |->
        ChoiceViolations(choices[i], recommendations_by_id, options_by_id)])

\* validate.validate_recommendation(store, rec_id)
validate_recommendation(st, rec_id) ==
    IF ~has(st, "Recommendation", rec_id) THEN Raised(<<"Recommendation", rec_id>>)
    ELSE LET rec == st.data["Recommendation"][rec_id]
             res == resolve_many(st, "Option", RankedOptionIds(rec))
         IN  ValidationReport(<<"Recommendation", rec_id>>,
                 require_recommendation_has_orientation(rec)
                 \o require_recommendation_has_ranked_options(rec)
                 \o (IF res.errors # <<>>
                     THEN _as_missing_violations(res.errors)
                     ELSE require_proportionate_action(rec, ById(res.found, "option_id"))),
                 res.errors)

\* the part of validate_episode that follows the recommendation loop; recs are
\* the resolved recommendations, opts_by_id the resolved episode options
EpisodeTail(st, ep, recs, opts_by_id) ==
    LET acted == _episode_acted(ep)
        recs_by_id == ById(recs, "recommendation_id")
        ch == resolve_many(st, "ChoiceRecord", ep.choice_ids)
        out == resolve_many(st, "Outcome", ep.outcome_ids)
        rev == resolve_many(st, "ReviewRecord", ep.review_ids)
        cal == resolve_many(st, "CalibrationNote", ep.calibration_ids)
        outcomes_by_id == IF out.errors = <<>> THEN ById(out.found, "outcome_id") ELSE <<>>
        reviews_by_id == IF rev.errors = <<>> THEN ById(rev.found, "review_id") ELSE <<>>
        any_override_used == \E i \in 1..Len(recs) : recs[i].override_used
        latest == latest_review_id(ep)
        audit == any_override_used /\ ~IsNone(latest)
        \* the latest review was not in reviews_by_id: resolved again on its own
        again == IF audit /\ latest.v \notin DOMAIN reviews_by_id
                 THEN resolve_many(st, "ReviewRecord", <<latest.v>>)
                 ELSE [found |-> <<>>, errors |-> <<>>]
        review == IF ~audit THEN None
                  ELSE IF latest.v \in DOMAIN reviews_by_id THEN Some(reviews_by_id[latest.v])
                  ELSE IF again.found # <<>> THEN Some(again.found[1])
                  ELSE None
    IN  [violations |->
            require_choice_exists_if_episode_acted(ep.episode_id, acted, ep.choice_ids)
            \o (IF ep.choice_ids = <<>> THEN <<>>
                ELSE IF ch.errors # <<>> THEN _as_missing_violations(ch.errors)
                ELSE validate_choices(ch.found, recs_by_id, opts_by_id))
            \o require_outcome_exists_if_episode_acted(
                   ep.episode_id, acted, ep.recommendation_ids # <<>>, ep.outcome_ids)
            \o (IF ep.outcome_ids = <<>> THEN <<>>
                ELSE IF out.errors # <<>> THEN _as_missing_violations(out.errors)
                ELSE validate_outcomes(out.found, recs_by_id, opts_by_id))
            \o require_review_exists_if_override_used(ep.episode_id, recs, ep.review_ids)
            \o _as_missing_violations(rev.errors)
            \o _as_missing_violations(again.errors)
            \o (IF IsNone(review) THEN <<>>
                ELSE require_review_audits_overrides(ep.episode_id, recs, review.v))
            \o (IF ep.calibration_ids = <<>> THEN <<>>
                ELSE IF cal.errors # <<>> THEN _as_missing_violations(cal.errors)
                ELSE validate_calibrations(cal.found, ep, reviews_by_id, outcomes_by_id)),
         resolve_errors |-> ch.errors \o out.errors \o rev.errors \o again.errors \o cal.errors]

\* validate.validate_episode(store, episode_id)
validate_episode(st, episode_id) ==
    IF ~has(st, "DecisionEpisode", episode_id)
    THEN Raised(<<"DecisionEpisode", episode_id>>)
    ELSE LET ep == st.data["DecisionEpisode"][episode_id]
             obs == resolve_many(st, "Observation", ep.observation_ids)
             opts == resolve_many(st, "Option", ep.option_ids)
             rr == resolve_many(st, "Recommendation", ep.recommendation_ids)
             reports == [i \in 1..Len(ep.recommendation_ids) |->
                            validate_recommendation(st, ep.recommendation_ids[i])]
             tail == EpisodeTail(st, ep, rr.found, ById(opts.found, "option_id"))
         IN  IF rr.errors # <<>> THEN Raised(<<"DecisionEpisode", episode_id>>)
             ELSE ValidationReport(<<"DecisionEpisode", episode_id>>,
                      (IF obs.errors # <<>> THEN _as_missing_violations(obs.errors)
                       ELSE require_observations_are_observational(obs.found))
                      \o _as_missing_violations(opts.errors)
                      \o FlattenSeq([i \in 1..Len(reports) |-> reports[i].violations])
                      \o tail.violations,
                      obs.errors \o opts.errors
                      \o FlattenSeq([i \in 1..Len(reports) |-> reports[i].resolve_errors])
                      \o tail.resolve_errors)

(***************************************************************************)
(* The store and the episode lifecycle as a state machine                   *)
(***************************************************************************)
MaxChoices == 1
MaxOutcomes == 1

\* new_id(prefix): the n-th identifier minted for a prefix
ChoiceIdPool == <<"ch_1", "ch_2", "ch_3">>
OutcomeIdPool == <<"out_1", "out_2", "out_3">>

Store == [data |-> data, ids_by_type |-> ids_by_type]
SetStore(st) == data' = st.data /\ ids_by_type' = st.ids_by_type

NoReport == [op |-> "none"]
Reported(op, rep) ==
    [op |-> op, subject |-> rep.subject, violations |-> rep.violations,
     resolve_errors |-> rep.resolve_errors, raised |-> rep.raised]

Option(option_id, kind, action_class, orientation_id, observation_ids, evidence_ids, reversibility, impact, uncertainties) ==
    [cls |-> "Option", option_id |-> option_id, kind |-> kind, action_class |-> action_class,
     orientation_id |-> orientation_id, observation_ids |-> observation_ids,
     interpretation_ids |-> <<>>, evidence_ids |-> evidence_ids,
     reversibility |-> reversibility, impact |-> impact, uncertainties |-> uncertainties]

RankedOption(option_id, rank) == [option_id |-> option_id, rank |-> rank]

Recommendation(recommendation_id, ranked_options, evidence_ids, observation_ids, override_used, override_scope_used) ==
    [cls |-> "Recommendation", recommendation_id |-> recommendation_id,
     orientation_id |-> "ori1", ranked_options |-> ranked_options,
     evidence_ids |-> evidence_ids, observation_ids |-> observation_ids,
     interpretation_ids |-> <<>>, model_state_ids |-> <<>>,
     override_used |-> override_used, override_scope_used |-> override_scope_used]

\* sorted(ranks), by insertion
RECURSIVE sorted(_)
sorted(seq) ==
    IF seq = <<>> THEN <<>>
    ELSE LET rest == sorted(Tail(seq))
             below == SelectSeq(rest, LAMBDA x : x <= Head(seq))
             above == SelectSeq(rest, LAMBDA x : x > Head(seq))
         IN  below \o <<Head(seq)>> \o above

\* mutant: only the uniqueness of the ranks is required
_validate_contiguous_ranks_unique(ranked_options) ==
    LET ranks == [i \in 1..Len(ranked_options) |-> ranked_options[i].rank]
    IN  IF Cardinality(Range(ranks)) # Len(ranks) THEN "ValueError" ELSE ""

\* recommendation._validate_contiguous_ranks: "" or the exception it raises
_validate_contiguous_ranks(ranked_options) ==
    LET ranks == [i \in 1..Len(ranked_options) |-> ranked_options[i].rank]
    IN  IF ranks = <<>> THEN ""
        ELSE IF sorted(ranks) # [i \in 1..Len(ranks) |-> i] THEN "ValueError"
        ELSE IF Cardinality(Range(ranks)) # Len(ranks) THEN "ValueError"
        ELSE ""

\* Recommendation(orientation_id=..., ranked_options=...) through __post_init__:
\* Some(recommendation), or None when it raises ValueError
NewRecommendation(orientation_id, ranked_options) ==
    IF orientation_id = "" THEN None
    ELSE IF _validate_contiguous_ranks(ranked_options) # "" THEN None
    ELSE Some([Recommendation("r1", ranked_options, <<>>, <<>>, FALSE, <<>>)
                  EXCEPT !.orientation_id = orientation_id])

\* Recommendation.add_ranked_options(*ranked_options): Some(recommendation), or
\* None when it raises ValueError
add_ranked_options(rec, ranked_options) ==
    LET new_ros == rec.ranked_options \o ranked_options
    IN  IF _validate_contiguous_ranks(new_ros) # "" THEN None
        ELSE NewRecommendation(rec.orientation_id, new_ros)

ChoiceRecord(choice_id, episode_id, recommendation_id, option_id, used_override) ==
    [cls |-> "ChoiceRecord", choice_id |-> choice_id, episode_id |-> episode_id,
     recommendation_id |-> recommendation_id, option_id |-> option_id,
     used_override |-> used_override]

CalibrationNote(calibration_id, episode_id, review_id, outcome_ids) ==
    [cls |-> "CalibrationNote", calibration_id |-> calibration_id, episode_id |-> episode_id,
     review_id |-> review_id, outcome_ids |-> outcome_ids]

Outcome(outcome_id, recommendation_id, chosen_option_id) ==
    [cls |-> "Outcome", outcome_id |-> outcome_id, recommendation_id |-> recommendation_id,
     chosen_option_id |-> chosen_option_id]

EpisodeIds == {"ep1"}
OptionIds == {"o1", "o2"}
\* "r_none" is an id under which no Recommendation is ever stored
RecIds == {"r1", "r_none"}

LifeOptions ==
    {Option("o1", "execute", AcStr("probe"), Some("ori1"), <<>>, <<"ev1">>,
            Some(50), Some(50), <<50>>),
     Option("o2", "info_gathering", None, None, <<>>, <<"ev1">>, Some(50), Some(50), <<>>)}

LifeRecs == {Recommendation("r1", <<RankedOption("o1", 1)>>, <<"ev1">>, <<>>, FALSE, <<>>)}

\* store.put(DecisionEpisode(episode_id=...))
PutEpisode ==
    \E eid \in EpisodeIds :
        /\ ~has(Store, "DecisionEpisode", eid)
        /\ SetStore(put(Store, DecisionEpisode(eid)))
        /\ report' = NoReport
        /\ UNCHANGED <<ims, gin, gout, minted>>

PutOption ==
    \E o \in LifeOptions :
        /\ SetStore(put(Store, o))
        /\ report' = NoReport
        /\ UNCHANGED <<ims, gin, gout, minted>>

PutRecommendation ==
    \E r \in LifeRecs :
        /\ SetStore(put(Store, r))
        /\ report' = NoReport
        /\ UNCHANGED <<ims, gin, gout, minted>>

\* store.put(f(store.must_get(DecisionEpisode, eid))) for an episode operation f
UpdateEpisode(eid, ep2) ==
    /\ SetStore(put(Store, ep2))
    /\ report' = NoReport
    /\ UNCHANGED <<ims, gin, gout, minted>>

AddOptions ==
    \E eid \in EpisodeIds, id \in OptionIds :
        /\ has(Store, "DecisionEpisode", eid)
        /\ UpdateEpisode(eid, add_options(data["DecisionEpisode"][eid], id))

AddRecommendations ==
    \E eid \in EpisodeIds, id \in RecIds :
        /\ has(Store, "DecisionEpisode", eid)
        /\ UpdateEpisode(eid, add_recommendations(data["DecisionEpisode"][eid], id))

\* mark_acted(chosen_option_id=chosen); a ValueError leaves the store as it was
MarkActed ==
    \E eid \in EpisodeIds, chosen \in {None} \cup {Some(o) : o \in OptionIds} :
        /\ has(Store, "DecisionEpisode", eid)
        /\ LET ep == data["DecisionEpisode"][eid]
           IN  UpdateEpisode(eid, IF mark_acted_raises(ep, chosen) THEN ep
                                  ELSE mark_acted(ep, chosen))

LogChoice ==
    \E eid \in EpisodeIds, id \in {"ch_x"} :
        /\ has(Store, "DecisionEpisode", eid)
        /\ UpdateEpisode(eid, log_choice(data["DecisionEpisode"][eid], id))

WithMetaActed ==
    \E eid \in EpisodeIds :
        /\ has(Store, "DecisionEpisode", eid)
        /\ UpdateEpisode(eid, with_meta_acted(data["DecisionEpisode"][eid], TRUE))

\* intake/act.py choose: the error it raises before anything is stored, ""
\* when it gets as far as creating the ChoiceRecord
choose_rejects(st, episode_id, recommendation_id, chosen_option_id) ==
    IF ~has(st, "DecisionEpisode", episode_id) THEN "KeyError"
    ELSE IF ~has(st, "Option", chosen_option_id) THEN "KeyError"
    ELSE LET ep == st.data["DecisionEpisode"][episode_id]
             rid == IF ~IsNone(recommendation_id) /\ recommendation_id.v # ""
                    THEN recommendation_id ELSE latest_recommendation_id(ep)
         IN  IF chosen_option_id \notin Range(ep.option_ids) THEN "ValueError"
             ELSE IF IsNone(rid) \/ rid.v = "" THEN "ValueError"
             ELSE IF ~has(st, "Recommendation", rid.v) THEN "KeyError"
             ELSE IF rid.v \notin Range(ep.recommendation_ids) THEN "ValueError"
             ELSE ""

\* intake/act.py choose, once its checks have passed: the store it leaves.
\* The ChoiceRecord is stored first; mark_acted may still raise, and then the
\* episode is not stored.
choose(st, episode_id, recommendation_id, chosen_option_id, used_override, choice_id) ==
    LET ep == st.data["DecisionEpisode"][episode_id]
        rid == IF ~IsNone(recommendation_id) /\ recommendation_id.v # ""
               THEN recommendation_id ELSE latest_recommendation_id(ep)
        choice == ChoiceRecord(choice_id, ep.episode_id, rid.v, chosen_option_id, used_override)
        st1 == put(st, choice)
        ep2 == [ep EXCEPT !.choice_ids = _append_unique(@, choice_id)]
    IN  IF mark_acted_raises(ep2, Some(chosen_option_id)) THEN st1
        ELSE put(st1, mark_acted(ep2, Some(chosen_option_id)))

\* choose(...) / act_on_option(...), which forwards to choose
Choose ==
    \E eid \in EpisodeIds, rid \in {None} \cup {Some(r) : r \in RecIds},
       oid \in OptionIds, used_override \in {FALSE} :
        /\ minted.ch < MaxChoices
        /\ IF choose_rejects(Store, eid, rid, oid) # ""
           THEN UNCHANGED <<ims, data, ids_by_type, minted>>
           ELSE /\ SetStore(choose(Store, eid, rid, oid, used_override,
                                   ChoiceIdPool[minted.ch + 1]))
                /\ minted' = [minted EXCEPT !.ch = @ + 1]
        /\ report' = NoReport
        /\ UNCHANGED <<ims, gin, gout>>

\* intake/outcome_log.py log_outcome: the store it leaves
intake_log_outcome(st, episode_id, recommendation_id, chosen_option_id, outcome_id) ==
    LET ep == st.data["DecisionEpisode"][episode_id]
        out == Outcome(outcome_id, recommendation_id, chosen_option_id)
    IN  put(put(st, out), add_outcomes(ep, out.outcome_id))

LogOutcome ==
    \E eid \in EpisodeIds, ro \in {<<None, None>>, <<Some("r1"), Some("o1")>>} :
        /\ minted.out < MaxOutcomes
        /\ IF ~has(Store, "DecisionEpisode", eid)
           THEN UNCHANGED <<ims, data, ids_by_type, minted>>
           ELSE /\ SetStore(intake_log_outcome(Store, eid, ro[1], ro[2],
                                               OutcomeIdPool[minted.out + 1]))
                /\ minted' = [minted EXCEPT !.out = @ + 1]
        /\ report' = NoReport
        /\ UNCHANGED <<ims, gin, gout>>

\* a variant of the validator step that writes the validated episode back
\* with its acted flag set
ValidateEpisodeSyncing ==
    \E eid \in EpisodeIds :
        /\ report' = Reported("validate_episode", validate_episode(Store, eid))
        /\ SetStore(IF has(Store, "DecisionEpisode", eid)
                    THEN put(Store, with_meta_acted(data["DecisionEpisode"][eid], TRUE))
                    ELSE Store)
        /\ UNCHANGED <<ims, gin, gout, minted>>

ValidateEpisode ==
    \E eid \in EpisodeIds :
        /\ report' = Reported("validate_episode", validate_episode(Store, eid))
        /\ UNCHANGED <<ims, gin, gout, data, ids_by_type, minted>>

ValidateRecommendation ==
    \E rid \in RecIds :
        /\ report' = Reported("validate_recommendation", validate_recommendation(Store, rid))
        /\ UNCHANGED <<ims, gin, gout, data, ids_by_type, minted>>

Init ==
    /\ gin = NoGate
    /\ gout = NoGate
    /\ data = EmptyStore.data
    /\ ids_by_type = EmptyStore.ids_by_type
    /\ ims = EmptyStore
    /\ minted = [ch |-> 0, out |-> 0]
    /\ report = NoReport

Next ==
    \/ PutEpisode
    \/ PutOption
    \/ PutRecommendation
    \/ AddOptions
    \/ AddRecommendations
    \/ MarkActed
    \/ LogChoice
    \/ WithMetaActed
    \/ Choose
    \/ LogOutcome
    \/ ValidateEpisode
    \/ ValidateRecommendation

Spec == Init /\ [][Next]_vars

GateNext ==
    \/ EvaluateOptionLegality
    \/ OverrideIsValid
    \/ GateAllowedActionClasses
    \/ EngineAllowedActionClasses
    \/ GateImpactSweep
    \/ EngineImpactSweep

\* the gate functions are pure: the initial state draws one call
GateInit ==
    /\ gin \in GateCalls
    /\ gout = NoGate
    /\ data = EmptyStore.data
    /\ ids_by_type = EmptyStore.ids_by_type
    /\ ims = EmptyStore
    /\ minted = [ch |-> 0, out |-> 0]
    /\ report = NoReport

SpecGate == GateInit /\ [][GateNext]_vars

(***************************************************************************)
(* Recommendation validation over a wide catalogue of options and           *)
(* recommendations (SpecRules): each artifact is stored once, then the      *)
(* pure and the store-based validators are called on the store's contents.  *)
(***************************************************************************)
\* the options put in the store: EXECUTE options declaring each class at every
\* band combination; EXECUTE options whose action_class is missing, oddly
\* written or not a class; EXECUTE options built with impact=None and
\* reversibility=None; EXECUTE options that differ in orientation, references
\* and uncertainty; HEDGE and INFO_GATHERING options that would violate the
\* gate as EXECUTE; and two second options
RuleOptions ==
    {Option("o1", "execute", AcStr(c), Some("ori1"), <<>>, <<"ev1">>, r, i, u) :
        c \in ActionClass, r \in {Some(30), Some(60), Some(90)},
        i \in {Some(10), Some(40), Some(70)}, u \in {<<>>, <<10>>, <<30>>, <<10, 70>>}}
    \cup
    {Option("o1", "execute", ac, Some("ori1"), <<>>, <<"ev1">>, r, Some(70), <<10>>) :
        ac \in {None, AcStr("COMMIT"), AcStr(" commit "), AcStr("Probe"), AcStr("bogus"),
                AcStr(""), AcEnum("commit")},
        r \in {Some(30), Some(90)}}
    \cup
    {Option("o1", "execute", AcStr(c), Some("ori1"), <<>>, <<"ev1">>, None, None, <<>>) :
        c \in {"probe", "commit"}}
    \cup
    {Option("o1", "execute", AcStr("probe"), ori, obs, ev, Some(90), Some(10), u) :
        ori \in {None, Some("ori2")}, obs \in {<<>>, <<"obs1">>},
        ev \in {<<>>, <<"ev1">>}, u \in {<<>>, <<10>>}}
    \cup
    {Option("o1", k, ac, None, <<>>, ev, Some(30), Some(70), <<70>>) :
        k \in {"hedge", "info_gathering"}, ac \in {None, AcStr("commit"), AcStr("bogus")},
        ev \in {<<>>, <<"ev1">>}}
    \cup {Option("o2", "execute", AcStr("commit"), Some("ori1"), <<>>, <<"ev2">>,
                 Some(30), Some(70), <<70>>),
          Option("o2", "info_gathering", None, None, <<>>, <<"ev1">>, Some(50), Some(50), <<>>)}

RuleRankings ==
    {<<>>, <<RankedOption("o1", 1)>>, <<RankedOption("o1", 1), RankedOption("o2", 2)>>,
     <<RankedOption("o1", 2), RankedOption("o2", 1)>>}

\* every ranking with every provenance and no override, and the override
\* variants of the recommendations that cite ev1
RuleRecs ==
    {Recommendation("r1", ros, prov[1], prov[2], FALSE, <<>>) :
        ros \in RuleRankings,
        prov \in {<< <<>>, <<>> >>, << <<"ev1">>, <<>> >>, << <<"ev2">>, <<"obs1">> >>}}
    \cup
    {Recommendation("r1", ros, <<"ev1">>, <<>>, ovr[1], ovr[2]) :
        ros \in RuleRankings \ {<<>>, <<RankedOption("o1", 2), RankedOption("o2", 1)>>},
        ovr \in {<<TRUE, <<"ALLOW_GATE_BYPASS">> >>, <<TRUE, <<"OTHER">> >>,
                 <<FALSE, <<"ALLOW_GATE_BYPASS">> >>}}

Observation(observation_id, info_type, raw_input_ids, evidence_ids) ==
    [cls |-> "Observation", observation_id |-> observation_id, info_type |-> info_type,
     raw_input_ids |-> raw_input_ids, evidence_ids |-> evidence_ids]

Evidence(evidence_id, sources) == [evidence_id |-> evidence_id, sources |-> sources]

\* (observations, evidence_items) passed to validate_all
RuleUpstreams ==
    {<< <<Observation("obs1", "fact", <<>>, <<"ev1", "ev9">>)>>,
        <<Evidence("ev1", <<"   ">>)>> >>}

PutRuleOption ==
    \E o \in RuleOptions :
        /\ ~has(Store, "Option", o.option_id)
        /\ SetStore(put(Store, o))
        /\ report' = NoReport
        /\ UNCHANGED <<ims, gin, gout, minted>>

PutRuleRecommendation ==
    \E r \in RuleRecs :
        /\ ~has(Store, "Recommendation", r.recommendation_id)
        /\ SetStore(put(Store, r))
        /\ report' = NoReport
        /\ UNCHANGED <<ims, gin, gout, minted>>

\* list(store options), in list_ids order
StoredOptions == [i \in 1..Len(ids_by_type["Option"]) |-> data["Option"][ids_by_type["Option"][i]]]

\* rules.validate_recommendation(rec, options_by_id={o.option_id: o ...})
RulesValidateRecommendation ==
    \E rid \in RecIds :
        /\ has(Store, "Recommendation", rid)
        /\ report' = Reported("rules_validate_recommendation",
               ValidationReport(<<"Recommendation", rid>>,
                   rules_validate_recommendation(data["Recommendation"][rid],
                                                 ById(StoredOptions, "option_id")),
                   <<>>))
        /\ UNCHANGED <<ims, gin, gout, data, ids_by_type, minted>>

\* validate_all(observations=..., evidence_items=..., options=..., recommendation=rec)
RulesValidateAll ==
    \E rid \in RecIds, up \in RuleUpstreams :
        /\ has(Store, "Recommendation", rid)
        /\ report' = Reported("rules_validate_all",
               ValidationReport(<<"Recommendation", rid>>,
                   rules_validate_all(up[1], up[2], StoredOptions, data["Recommendation"][rid]),
                   <<>>))
        /\ UNCHANGED <<ims, gin, gout, data, ids_by_type, minted>>

RulesNext ==
    \/ PutRuleOption
    \/ PutRuleRecommendation
    \/ RulesValidateRecommendation
    \/ RulesValidateAll
    \/ ValidateRecommendation
    \/ ValidateEpisode

\* DecisionEpisode(episode_id="ep1", option_ids=("o1", "o2"),
\* recommendation_ids=("r1",)), which the store holds from the start
RuleEpisode ==
    [DecisionEpisode("ep1") EXCEPT !.option_ids = <<"o1", "o2">>,
                                   !.recommendation_ids = <<"r1">>]

RulesInit ==
    /\ gin = NoGate
    /\ gout = NoGate
    /\ data = put(EmptyStore, RuleEpisode).data
    /\ ids_by_type = put(EmptyStore, RuleEpisode).ids_by_type
    /\ ims = EmptyStore
    /\ minted = [ch |-> 0, out |-> 0]
    /\ report = NoReport

SpecRules == RulesInit /\ [][RulesNext]_vars

(***************************************************************************)
(* The two stores on their own (SpecStore): artifacts of several kinds are  *)
(* put, and resolve_many is called on each store; report records the last   *)
(* call with the store value it was made on.                                *)
(***************************************************************************)
\* the artifacts put in runtime/store.py's store
StoreArtifacts ==
    {ChoiceRecord("ch_1", "ep1", "r1", "o1", FALSE),
     ChoiceRecord("ch_2", "ep1", "r1", "o2", FALSE),
     ChoiceRecord("ch_2", "ep1", "r2", "o1", FALSE),
     CalibrationNote("cal_1", "ep_1", "rev_1", <<>>),
     CalibrationNote("cal_2", "ep_1", "rev_1", <<>>),
     CalibrationNote("cal_1", "", "", <<>>)}
    \cup LifeOptions

\* the id sequences passed to resolve_many
ResolveIds ==
    {<<>>, <<"o1", "zz">>, <<"zz", "o1", "o2">>, <<"o2", "o1", "o2">>, <<"r1", "", "rev_1">>}

\* store.put(a) on runtime/store.py's store
StorePut ==
    \E a \in StoreArtifacts :
        /\ SetStore(put(Store, a))
        /\ report' = [op |-> "put", obj |-> a, id |-> _infer_primary_id(a), before |-> Store]
        /\ UNCHANGED <<ims, gin, gout, minted>>

\* store.put(a) on in_memory_store's store
ImsPut ==
    \E a \in LifeOptions :
        /\ ims' = ims_put(ims, a)
        /\ report' = [op |-> "ims_put", obj |-> a, id |-> ims_infer_primary_id(a), before |-> ims]
        /\ UNCHANGED <<gin, gout, data, ids_by_type, minted>>

\* store.resolve_many(cls, ids) on runtime/store.py's store
StoreResolveMany ==
    \E cls \in {"Option", "ChoiceRecord", "CalibrationNote"}, ids \in ResolveIds :
        /\ report' = [op |-> "resolve_many", cls |-> cls, ids |-> ids, before |-> Store,
                      result |-> resolve_many(Store, cls, ids)]
        /\ UNCHANGED <<ims, gin, gout, data, ids_by_type, minted>>

\* store.resolve_many(cls, ids) on in_memory_store's store
ImsResolveMany ==
    \E cls \in {"Option", "ChoiceRecord"}, ids \in ResolveIds :
        /\ report' = [op |-> "ims_resolve_many", cls |-> cls, ids |-> ids, before |-> ims,
                      result |-> ims_resolve_many(ims, cls, ids)]
        /\ UNCHANGED <<ims, gin, gout, data, ids_by_type, minted>>

StoreNext ==
    \/ StorePut
    \/ ImsPut
    \/ StoreResolveMany
    \/ ImsResolveMany

SpecStore == Init /\ [][StoreNext]_vars

(***************************************************************************)
(* A Recommendation value under construction and add_ranked_options         *)
(* (SpecRec): report holds the Recommendation the caller has (None before   *)
(* one was built), the ranked options of the last call and its result.      *)
(***************************************************************************)
MaxRanked == 4

\* tuples of RankedOption passed to the constructor or to add_ranked_options
RankedTuples(maxLen) ==
    UNION {[1..n -> {RankedOption(o, r) : o \in OptionIds, r \in 1..MaxRanked}] : n \in 0..maxLen}

\* rec = Recommendation(orientation_id=ori, ranked_options=ros)
ConstructRecommendation ==
    /\ report = NoReport
    /\ \E ori \in {"", "ori1"}, ros \in RankedTuples(3) :
           report' = [op |-> "Recommendation", held |-> NewRecommendation(ori, ros),
                      orientation_id |-> ori, ranked_options |-> ros,
                      result |-> NewRecommendation(ori, ros)]
    /\ UNCHANGED <<gin, gout, data, ids_by_type, ims, minted>>

\* rec = rec.add_ranked_options(*ros); the caller keeps rec when the call raises
AddRankedOptions ==
    /\ report.op \in {"Recommendation", "add_ranked_options"}
    /\ ~IsNone(report.held)
    /\ \E ros \in RankedTuples(2) :
           /\ Len(report.held.v.ranked_options) + Len(ros) <= MaxRanked
           /\ LET res == add_ranked_options(report.held.v, ros)
              IN  report' = [op |-> "add_ranked_options",
                             held |-> IF IsNone(res) THEN report.held ELSE res,
                             orientation_id |-> report.held.v.orientation_id,
                             ranked_options |-> report.held.v.ranked_options \o ros,
                             result |-> res]
    /\ UNCHANGED <<gin, gout, data, ids_by_type, ims, minted>>

RecNext ==
    \/ ConstructRecommendation
    \/ AddRankedOptions

SpecRec == Init /\ [][RecNext]_vars

(***************************************************************************)
(* A DecisionEpisode value and the operations called on it (SpecEpisode):   *)
(* report holds the receiver of the last call, its argument, whether it     *)
(* raised, its result, and the episode the caller holds afterwards (the     *)
(* receiver when the call raised).  The dataclass is frozen: an operation   *)
(* builds its result with dataclasses.replace.                              *)
(***************************************************************************)
MaxEpisodeIds == 2

IdLists ==
    {"observation_ids", "option_ids", "recommendation_ids", "choice_ids",
     "outcome_ids", "review_ids", "calibration_ids"}

\* the id list an add_* or log_* operation appends to
IdListOf(name) ==
    CASE name = "add_observations" -> "observation_ids"
      [] name = "add_options" -> "option_ids"
      [] name = "add_recommendations" -> "recommendation_ids"
      [] name \in {"add_choices", "log_choice"} -> "choice_ids"
      [] name \in {"add_outcomes", "log_outcome"} -> "outcome_ids"
      [] name \in {"add_reviews", "log_review"} -> "review_ids"
      [] name \in {"add_calibrations", "log_calibration"} -> "calibration_ids"

AddOps ==
    {"add_observations", "add_options", "add_recommendations", "add_choices",
     "add_outcomes", "add_reviews", "add_calibrations"}
LogOps == {"log_choice", "log_outcome", "log_review", "log_calibration"}

\* ep.<name>(arg): [raised, result]; arg is a tuple of ids for add_*, an id
\* for log_* and act_on_option, None or Some(id) for mark_acted
EpisodeCall(ep, name, arg) ==
    LET Returned(ep2) == [raised |-> "", result |-> Some(ep2)]
        ValueError == [raised |-> "ValueError", result |-> None]
    IN  CASE name \in AddOps ->
                 Returned([ep EXCEPT ![IdListOf(name)] = _append_unique_items(@, arg)])
          [] name \in LogOps ->
                 IF arg = "" THEN ValueError
                 ELSE Returned([ep EXCEPT ![IdListOf(name)] = _append_unique(@, arg)])
          [] name = "mark_acted" ->
                 IF mark_acted_raises(ep, arg) THEN ValueError
                 ELSE Returned(mark_acted(ep, arg))
          [] name = "act_on_option" ->
                 IF arg = "" \/ mark_acted_raises(ep, Some(arg)) THEN ValueError
                 ELSE Returned(mark_acted(ep, Some(arg)))

EpisodeItemIds == {"", "a", "b"}

\* the arguments drawn for an operation
EpisodeArgs(name) ==
    IF name \in AddOps
    THEN {<<>>, <<"a">>, <<"b", "a">>, <<"", "b">>}
    ELSE IF name = "mark_acted" THEN {None} \cup {Some(i) : i \in EpisodeItemIds}
    ELSE EpisodeItemIds

TotalIds(ep) ==
    Len(ep.observation_ids) + Len(ep.option_ids) + Len(ep.recommendation_ids)
    + Len(ep.choice_ids) + Len(ep.outcome_ids) + Len(ep.review_ids)
    + Len(ep.calibration_ids)

\* ep = DecisionEpisode(episode_id="ep1", acted=..., chosen_option_id=...)
ConstructEpisode ==
    /\ report = NoReport
    /\ \E acted \in BOOLEAN, chosen \in {None, Some("a")} :
           LET ep == [DecisionEpisode("ep1") EXCEPT !.acted = acted,
                                                    !.chosen_option_id = chosen]
           IN  report' = [op |-> "DecisionEpisode", name |-> "DecisionEpisode",
                          receiver |-> ep, arg |-> None, raised |-> "",
                          result |-> Some(ep), held |-> ep]
    /\ UNCHANGED <<gin, gout, data, ids_by_type, ims, minted>>

\* ep = ep.<name>(arg); the caller keeps ep when the call raises
EpisodeOp(names) ==
    /\ report.op \in {"DecisionEpisode", "episode_op"}
    /\ \E name \in names :
         \E arg \in EpisodeArgs(name) :
           LET res == EpisodeCall(report.held, name, arg)
               held2 == IF res.raised = "" THEN res.result.v ELSE report.held
           IN  /\ TotalIds(held2) <= MaxEpisodeIds
               /\ report' = [op |-> "episode_op", name |-> name,
                              receiver |-> report.held, arg |-> arg,
                              raised |-> res.raised, result |-> res.result,
                              held |-> held2]
    /\ UNCHANGED <<gin, gout, data, ids_by_type, ims, minted>>

EpisodeAdd == EpisodeOp(AddOps)
EpisodeLog == EpisodeOp(LogOps)
EpisodeMarkActed == EpisodeOp({"mark_acted"})
EpisodeActOnOption == EpisodeOp({"act_on_option"})

EpisodeNext ==
    \/ ConstructEpisode
    \/ EpisodeAdd
    \/ EpisodeLog
    \/ EpisodeMarkActed
    \/ EpisodeActOnOption

SpecEpisode == Init /\ [][EpisodeNext]_vars

\* ep = DecisionEpisode(episode_id="ep1", <list>=ids): __post_init__ turns
\* each sequence into a tuple and keeps its items as they were passed
ConstructEpisodeWithIds ==
    /\ report = NoReport
    /\ \E f \in {"option_ids", "outcome_ids"} :
         \E ids \in {<<>>, <<"a">>, <<"a", "a">>, <<"", "b">>} :
           LET ep == [DecisionEpisode("ep1") EXCEPT ![f] = ids]
           IN  report' = [op |-> "DecisionEpisode", name |-> "DecisionEpisode",
                          receiver |-> ep, arg |-> ids, raised |-> "",
                          result |-> Some(ep), held |-> ep]
    /\ UNCHANGED <<gin, gout, data, ids_by_type, ims, minted>>

EpisodeIdsNext ==
    \/ ConstructEpisodeWithIds
    \/ EpisodeAdd
    \/ EpisodeLog

SpecEpisodeIds == Init /\ [][EpisodeIdsNext]_vars

(***************************************************************************)
(* Reviews of an episode with overridden recommendations (SpecReview): the  *)
(* store starts with option o1 and an episode listing it; recommendations   *)
(* and reviews are put, their ids are added to the stored episode, and the  *)
(* episode is validated.                                                    *)
(***************************************************************************)
\* ReviewRecord(review_id=..., override_audit={"overrides": [...]}) ;
\* overrides is None when the key is missing or its value is not a list
ReviewRecord(review_id, overrides) ==
    [cls |-> "ReviewRecord", review_id |-> review_id, episode_id |-> None,
     overrides |-> overrides]

\* one entry of override_audit["overrides"]
OverrideEntry(rid, scope, rationale) ==
    [recommendation_id |-> Some(rid), override_scope_used |-> Some(scope),
     rationale |-> Some(rationale)]

ReviewRecs ==
    {Recommendation("r1", <<RankedOption("o1", 1)>>, <<"ev1">>, <<>>, TRUE, <<"s1">>),
     Recommendation("r2", <<RankedOption("o1", 1)>>, <<"ev1">>, <<>>, TRUE, <<"s1">>),
     Recommendation("r3", <<RankedOption("o1", 1)>>, <<"ev1">>, <<>>, FALSE, <<>>)}

Reviews ==
    {ReviewRecord("rev_1", ov) :
        ov \in {None, Some(<<>>),
                Some(<<OverrideEntry("r1", <<"s1">>, "why")>>),
                Some(<<OverrideEntry("r1", <<>>, "why")>>),
                Some(<<OverrideEntry("r1", <<"s1">>, " ")>>),
                Some(<<OverrideEntry("r2", <<"s1">>, "why")>>),
                Some(<<OverrideEntry("r1", <<"s1">>, "why"), OverrideEntry("r2", <<"s1">>, "why")>>)}}
    \cup {ReviewRecord("rev_2", Some(<<OverrideEntry("r1", <<"s1">>, "why"),
                                       OverrideEntry("r2", <<"s1">>, "why")>>))}

\* store.put(artifact) for an artifact whose key is not stored yet
PutArtifact(artifacts) ==
    \E a \in artifacts :
        /\ ~has(Store, a.cls, _infer_primary_id(a))
        /\ SetStore(put(Store, a))
        /\ report' = NoReport
        /\ UNCHANGED <<ims, gin, gout, minted>>

\* store.put(store.must_get(DecisionEpisode, "ep1").<name>(id)) when the
\* operation returns an episode that differs from the stored one
EpisodeStoreOp(name, ids) ==
    \E id \in ids :
        /\ has(Store, "DecisionEpisode", "ep1")
        /\ LET ep == data["DecisionEpisode"]["ep1"]
               res == EpisodeCall(ep, name, IF name \in AddOps THEN <<id>> ELSE id)
           IN  /\ res.raised = ""
               /\ res.result.v # ep
               /\ UpdateEpisode("ep1", res.result.v)

ReviewPut == PutArtifact(ReviewRecs \cup Reviews)
ReviewAddRecommendations == EpisodeStoreOp("add_recommendations", {"r1", "r2", "r3"})
ReviewLogReview == EpisodeStoreOp("log_review", {"rev_1", "rev_2"})

ReviewNext ==
    \/ ReviewPut
    \/ ReviewAddRecommendations
    \/ ReviewLogReview
    \/ ValidateEpisode

\* a store holding option o1 and episode ep1, which lists o1
AuditInit ==
    LET st == put(put(EmptyStore, CHOOSE o \in LifeOptions : o.option_id = "o1"),
                  add_options(DecisionEpisode("ep1"), "o1"))
    IN  /\ gin = NoGate
        /\ gout = NoGate
        /\ data = st.data
        /\ ids_by_type = st.ids_by_type
        /\ ims = EmptyStore
        /\ minted = [ch |-> 0, out |-> 0]
        /\ report = NoReport

SpecReview == AuditInit /\ [][ReviewNext]_vars

(***************************************************************************)
(* Calibration notes of an episode (SpecCal): calibration notes, a review   *)
(* and an outcome are put, their ids are added to the stored episode, and   *)
(* the episode is validated.                                                *)
(***************************************************************************)
CalArtifacts ==
    {CalibrationNote("cal_1", "ep_wrong", "rev_1", <<"out_1">>),
     CalibrationNote("cal_2", "", "", <<>>),
     CalibrationNote("cal_3", "ep1", "rev_1", <<"out_x">>),
     CalibrationNote("cal_4", "ep1", "", <<"out_1">>),
     ReviewRecord("rev_1", None),
     Outcome("out_1", None, None)}

CalPut == PutArtifact(CalArtifacts)
CalAddCalibrations == EpisodeStoreOp("add_calibrations", {"cal_1", "cal_2", "cal_3", "cal_4"})
CalAddReviews == EpisodeStoreOp("add_reviews", {"rev_1"})
CalAddOutcomes == EpisodeStoreOp("add_outcomes", {"out_1"})

CalNext ==
    \/ CalPut
    \/ CalAddCalibrations
    \/ CalAddReviews
    \/ CalAddOutcomes
    \/ ValidateEpisode

SpecCal == AuditInit /\ [][CalNext]_vars

(***************************************************************************)
(* Concurrent callers of intake/act.py choose and intake/outcome_log.py     *)
(* log_outcome on one episode (SpecRace).  Each call reads the stored       *)
(* episode, puts its new artifact, and puts the episode it derived from the *)
(* value it read; the store calls of the two callers interleave.  gin holds *)
(* each caller's position and locals.                                       *)
(***************************************************************************)
Idle == [pc |-> "idle", ep |-> None, option |-> "", id |-> ""]

\* a caller is between its read of the episode and its last put
InFlight(caller) == caller.pc \in {"read", "stored"}

\* the stored episodes the callers start from: o1, o2 and r1 listed; with an
\* earlier choice and outcome; already acted on o1; acted on o2 with an outcome
RaceEpisodes ==
    LET ep0 == add_recommendations(
                   add_options(add_options(DecisionEpisode("ep1"), "o1"), "o2"), "r1")
    IN  {ep0, add_outcomes(log_choice(ep0, "ch_0"), "out_0"), mark_acted(ep0, Some("o1")),
         mark_acted(add_outcomes(ep0, "out_0"), Some("o2"))}

RaceInit ==
    \E ep \in RaceEpisodes :
        LET o1 == CHOOSE o \in LifeOptions : o.option_id = "o1"
            o2 == CHOOSE o \in LifeOptions : o.option_id = "o2"
            r1 == CHOOSE r \in LifeRecs : r.recommendation_id = "r1"
            st == put(put(put(put(EmptyStore, o1), o2), r1), ep)
        IN  /\ gin = [choose |-> Idle, log_outcome |-> Idle, overlapped |-> FALSE]
            /\ gout = NoGate
            /\ data = st.data
            /\ ids_by_type = st.ids_by_type
            /\ ims = EmptyStore
            /\ minted = [ch |-> 0, out |-> 0]
            /\ report = NoReport

\* choose, act.py:43-61: the episode is read and the checks are made
ChooseRead ==
    /\ ~InFlight(gin.choose)
    /\ minted.ch < MaxChoices
    /\ \E oid \in OptionIds :
         gin' = [gin EXCEPT
                   !.choose = IF choose_rejects(Store, "ep1", Some("r1"), oid) # ""
                              THEN [pc |-> "raised", ep |-> None, option |-> oid, id |-> ""]
                              ELSE [pc |-> "read", ep |-> Some(data["DecisionEpisode"]["ep1"]),
                                    option |-> oid, id |-> ""],
                   !.overlapped = @ \/ InFlight(gin.log_outcome)]
    /\ UNCHANGED <<gout, data, ids_by_type, ims, minted, report>>

\* choose, act.py:63-74: the ChoiceRecord is created and put
ChoosePutChoice ==
    /\ gin.choose.pc = "read"
    /\ LET choice_id == ChoiceIdPool[minted.ch + 1]
       IN  /\ SetStore(put(Store, ChoiceRecord(choice_id, gin.choose.ep.v.episode_id, "r1",
                                               gin.choose.option, FALSE)))
           /\ gin' = [gin EXCEPT !.choose.pc = "stored", !.choose.id = choice_id]
    /\ minted' = [minted EXCEPT !.ch = @ + 1]
    /\ UNCHANGED <<gout, ims, report>>

\* choose, act.py:77-91: the episode derived from the value read is put,
\* unless mark_acted raises
ChoosePutEpisode ==
    /\ gin.choose.pc = "stored"
    /\ LET ep2 == [gin.choose.ep.v EXCEPT !.choice_ids = _append_unique(@, gin.choose.id)]
           chosen == Some(gin.choose.option)
       IN  IF mark_acted_raises(ep2, chosen)
           THEN /\ gin' = [gin EXCEPT !.choose.pc = "raised"]
                /\ UNCHANGED <<data, ids_by_type>>
           ELSE /\ SetStore(put(Store, mark_acted(ep2, chosen)))
                /\ gin' = [gin EXCEPT !.choose.pc = "returned"]
    /\ UNCHANGED <<gout, ims, minted, report>>

\* log_outcome, outcome_log.py:23: the episode is read
LogOutcomeRead ==
    /\ ~InFlight(gin.log_outcome)
    /\ minted.out < MaxOutcomes
    /\ gin' = [gin EXCEPT
                 !.log_outcome = [pc |-> "read", ep |-> Some(data["DecisionEpisode"]["ep1"]),
                                  option |-> "o1", id |-> ""],
                 !.overlapped = @ \/ InFlight(gin.choose)]
    /\ UNCHANGED <<gout, data, ids_by_type, ims, minted, report>>

\* log_outcome, outcome_log.py:25-36: the Outcome is created and put
LogOutcomePutOutcome ==
    /\ gin.log_outcome.pc = "read"
    /\ LET outcome_id == OutcomeIdPool[minted.out + 1]
       IN  /\ SetStore(put(Store, Outcome(outcome_id, Some("r1"), Some(gin.log_outcome.option))))
           /\ gin' = [gin EXCEPT !.log_outcome.pc = "stored", !.log_outcome.id = outcome_id]
    /\ minted' = [minted EXCEPT !.out = @ + 1]
    /\ UNCHANGED <<gout, ims, report>>

\* log_outcome, outcome_log.py:38-40: the episode derived from the value read
\* is put
LogOutcomePutEpisode ==
    /\ gin.log_outcome.pc = "stored"
    /\ SetStore(put(Store, add_outcomes(gin.log_outcome.ep.v, gin.log_outcome.id)))
    /\ gin' = [gin EXCEPT !.log_outcome.pc = "returned"]
    /\ UNCHANGED <<gout, ims, minted, report>>

RaceNext ==
    \/ ChooseRead
    \/ ChoosePutChoice
    \/ ChoosePutEpisode
    \/ LogOutcomeRead
    \/ LogOutcomePutOutcome
    \/ LogOutcomePutEpisode

SpecRace == RaceInit /\ [][RaceNext]_vars

(***************************************************************************)
(* Concurrent callers of one store (SpecThreads).  runtime/store.py's put   *)
(* takes no lock: it writes _data, then looks the id up in the id list of   *)
(* the type, then appends it, and another thread may run between any two of *)
(* these.  in_memory_store.py's put runs under the store's lock.  A read    *)
(* (get, has, list_ids) is one dictionary access; resolve_many makes one    *)
(* get per id.  gin holds the store the threads share and each thread's     *)
(* position and locals.                                                     *)
(***************************************************************************)
Threads == {"t1", "t2"}

\* the artifacts the threads put: two values under the id o1, one under o2
ThreadArtifacts ==
    LifeOptions
    \cup {Option("o1", "info_gathering", None, None, <<>>, <<"ev1">>, Some(50), Some(50), <<>>)}

NoCall == [pc |-> "idle", obj |-> None, missing |-> FALSE]
NoResolve == [pc |-> "idle", ids |-> <<>>, found |-> <<>>, errors |-> <<>>]

StoreNames == {"store", "in_memory_store"}

ThreadsInit ==
    /\ gin \in [shared : StoreNames, t1 : {NoCall}, t2 : {NoCall}, reader : {NoResolve}]
    /\ gout = NoGate
    /\ data = EmptyStore.data
    /\ ids_by_type = EmptyStore.ids_by_type
    /\ ims = EmptyStore
    /\ minted = [ch |-> 0, out |-> 0]
    /\ report = NoReport

\* store.py put, line 117: self._data[key] = obj
StorePutWrite ==
    \E t \in Threads, a \in ThreadArtifacts :
        /\ gin.shared = "store"
        /\ gin[t].pc = "idle"
        /\ data' = [data EXCEPT ![a.cls] = (_infer_primary_id(a) :> a) @@ @]
        /\ gin' = [gin EXCEPT ![t] = [pc |-> "written", obj |-> Some(a), missing |-> FALSE]]
        /\ UNCHANGED <<gout, ids_by_type, ims, minted, report>>

\* store.py put, lines 119-120: ids = setdefault(tk, []); obj_id not in ids
StorePutLookup ==
    \E t \in Threads :
        /\ gin[t].pc = "written"
        /\ gin' = [gin EXCEPT ![t].pc = "looked",
                              ![t].missing = _infer_primary_id(gin[t].obj.v)
                                                \notin Range(ids_by_type[gin[t].obj.v.cls])]
        /\ UNCHANGED <<gout, data, ids_by_type, ims, minted, report>>

\* store.py put, lines 121-123: ids.append(obj_id) when it was not in ids
StorePutAppend ==
    \E t \in Threads :
        /\ gin[t].pc = "looked"
        /\ ids_by_type' = IF gin[t].missing
                          THEN [ids_by_type EXCEPT ![gin[t].obj.v.cls] =
                                   Append(@, _infer_primary_id(gin[t].obj.v))]
                          ELSE ids_by_type
        /\ gin' = [gin EXCEPT ![t] = NoCall]
        /\ UNCHANGED <<gout, data, ims, minted, report>>

\* in_memory_store.py put: the whole update runs under self._lock
ImsLockedPut ==
    \E t \in Threads, a \in ThreadArtifacts :
        /\ gin.shared = "in_memory_store"
        /\ gin[t].pc = "idle"
        /\ ims' = ims_put(ims, a)
        /\ UNCHANGED <<gin, gout, data, ids_by_type, minted, report>>

\* the store the threads share
SharedStore == IF gin.shared = "store" THEN Store ELSE ims

\* get(Option, id) and has(Option, id)
ThreadGet ==
    \E id \in OptionIds :
        /\ gin.reader.pc = "idle"
        /\ report' = [op |-> "get", id |-> id,
                      result |-> get(SharedStore, "Option", id),
                      has |-> has(SharedStore, "Option", id)]
        /\ UNCHANGED <<gin, gout, data, ids_by_type, ims, minted>>

\* list_ids(Option)
ThreadListIds ==
        /\ gin.reader.pc = "idle"
        /\ report' = [op |-> "list_ids", result |-> list_ids(SharedStore, "Option")]
        /\ UNCHANGED <<gin, gout, data, ids_by_type, ims, minted>>

\* resolve_many(Option, ids) is called
ResolveManyBegin ==
    \E ids \in {<<"o1", "o2">>} :
        /\ gin.reader.pc = "idle"
        /\ gin' = [gin EXCEPT !.reader = [pc |-> "loop", ids |-> ids,
                                          found |-> <<>>, errors |-> <<>>]]
        /\ report' = NoReport
        /\ UNCHANGED <<gout, data, ids_by_type, ims, minted>>

\* resolve_many: one turn of the loop, and the return after the last id
ResolveManyStep ==
    /\ gin.reader.pc = "loop"
    /\ IF gin.reader.ids = <<>>
       THEN /\ report' = [op |-> "resolve_many",
                          result |-> [found |-> gin.reader.found, errors |-> gin.reader.errors]]
            /\ gin' = [gin EXCEPT !.reader = NoResolve]
       ELSE LET obj == get(SharedStore, "Option", Head(gin.reader.ids))
            IN  /\ gin' = [gin EXCEPT
                             !.reader.ids = Tail(@),
                             !.reader.found = IF IsNone(obj) THEN @ ELSE Append(@, obj.v),
                             !.reader.errors = IF IsNone(obj)
                                               THEN Append(@, ResolveError("Option", Head(gin.reader.ids)))
                                               ELSE @]
                /\ UNCHANGED report
    /\ UNCHANGED <<gout, data, ids_by_type, ims, minted>>

ThreadsNext ==
    \/ StorePutWrite
    \/ StorePutLookup
    \/ StorePutAppend
    \/ ImsLockedPut
    \/ ThreadGet
    \/ ThreadListIds
    \/ ResolveManyBegin
    \/ ResolveManyStep

SpecThreads == ThreadsInit /\ [][ThreadsNext]_vars

(***************************************************************************)
(* invariants/provider_rules.py : the provider-boundary validator           *)
(*                                                                         *)
(* A Python value of a bundle is a record: t is its type ("none", "str",    *)
(* "int", "float", "bool", "list", "map") and s, n, f, b, l or m its value; *)
(* a float is held in hundredths, a map is a record of such values in which *)
(* a missing key and a key holding None are one (_get returns None for      *)
(* both).  A rule                                                           *)
(* returns [raised, violations]: raised names the exception that escapes    *)
(* it, "" when it returns.                                                  *)
(***************************************************************************)
PyNone == [t |-> "none"]
PyStr(s) == [t |-> "str", s |-> s]
PyInt(n) == [t |-> "int", n |-> n]
PyFloat(x) == [t |-> "float", f |-> x]
PyBool(b) == [t |-> "bool", b |-> b]
PyList(seq) == [t |-> "list", l |-> seq]
PyMap(rec) == [t |-> "map", m |-> rec]

\* bool(x)
Truthy(x) ==
    CASE x.t = "none" -> FALSE
      [] x.t = "str" -> x.s # ""
      [] x.t = "int" -> x.n # 0
      [] x.t = "float" -> x.f # 0
      [] x.t = "bool" -> x.b
      [] x.t = "list" -> x.l # <<>>
      [] x.t = "map" -> TRUE

\* str(x); the text of a list or of a mapping is no identifier
PyToStr(x) ==
    CASE x.t = "str" -> x.s
      [] x.t = "int" -> ToString(x.n)
      [] x.t = "none" -> "None"
      [] OTHER -> "<repr>"

Returned(violations) == [raised |-> "", violations |-> violations]
TypeError == [raised |-> "TypeError", violations |-> <<>>]

\* _get(obj, key, None): a key of a mapping, None for any other object
_get(obj, key) == IF obj.t = "map" /\ key \in DOMAIN obj.m THEN obj.m[key] ELSE PyNone

_is_nonempty_str(x) == x.t = "str" /\ Strip(x.s) # ""

\* isinstance(x, (int, float)); bool is a subclass of int
IsNumber(x) == x.t \in {"int", "float", "bool"}

_as_list(x) == IF x.t = "none" THEN <<>> ELSE IF x.t = "list" THEN x.l ELSE <<x>>

\* INV-PS-001
require_proposalset_header_fields(ps) ==
    LET missing == SelectSeq(<<"provider_id", "model_id", "run_id", "limits">>,
                             LAMBDA k : ~_is_nonempty_str(_get(ps, k)))
                   \o (IF IsNumber(_get(_get(ps, "sampling"), "temperature")) THEN <<>>
                       ELSE <<"sampling.temperature">>)
    IN  IF missing # <<>> THEN <<InvariantViolation("INV-PS-001", missing)>> ELSE <<>>

_FORBIDDEN_FIELDS ==
    {"recommendation", "choice_record", "outcome", "review_record", "calibration_note",
     "override"}

\* INV-PA-001 (the field the message names depends on set iteration order)
require_no_forbidden_artifact_fields(ps) ==
    IF \E f \in _FORBIDDEN_FIELDS : _get(ps, f) # PyNone
    THEN <<InvariantViolation("INV-PA-001", <<>>)>> ELSE <<>>

\* INV-PA-002 for one sub-item
_require_required_fields(kind, obj) ==
    IF \/ ~IsNumber(_get(obj, "confidence"))
       \/ ~IsNumber(_get(_get(obj, "uncertainty"), "level"))
       \/ _get(obj, "evidence_refs").t # "list"
       \/ ~_is_nonempty_str(_get(obj, "limits"))
    THEN <<InvariantViolation("INV-PA-002", <<kind>>)>> ELSE <<>>

Sections == <<"interpretations", "options", "ranked_options", "override_suggestions">>

\* the sub-items of the four sections, in the order the rules visit them
SubItems(ps) ==
    FlattenSeq([k \in 1..4 |->
        [i \in 1..Len(_as_list(_get(ps, Sections[k]))) |->
            [kind |-> Sections[k], obj |-> _as_list(_get(ps, Sections[k]))[i]]]])

require_provider_artifacts_declare_fields(ps) ==
    FlattenSeq([i \in 1..Len(SubItems(ps)) |->
        _require_required_fields(SubItems(ps)[i].kind, SubItems(ps)[i].obj)])

\* check_refs of require_proposalset_evidence_refs_resolve for one sub-item:
\* iterating a value that is no list or str raises, a membership test of an
\* unhashable reference raises, and so does ', '.join over a missing
\* reference that is no str.  A str iterates over its characters (the strings
\* drawn for evidence_refs have one character).
check_refs(kind, obj, evidence_by_id) ==
    LET x == _get(obj, "evidence_refs")
        refs == IF ~Truthy(x) THEN <<>> ELSE IF x.t = "str" THEN <<PyStr(x.s)>> ELSE x.l
    IN  IF Truthy(x) /\ x.t \notin {"list", "str"} THEN TypeError
        ELSE IF \E i \in 1..Len(refs) : refs[i].t \in {"list", "map"} THEN TypeError
        ELSE LET missing == SelectSeq(refs, LAMBDA r : r.t # "str" \/ r.s \notin evidence_by_id)
             IN  IF missing = <<>> THEN Returned(<<>>)
                 ELSE IF \E i \in 1..Len(missing) : missing[i].t # "str" THEN TypeError
                 ELSE Returned(<<InvariantViolation("INV-PS-002", <<kind>>)>>)

\* INV-PS-002
require_proposalset_evidence_refs_resolve(ps, evidence_by_id) ==
    LET each == [i \in 1..Len(SubItems(ps)) |->
                    check_refs(SubItems(ps)[i].kind, SubItems(ps)[i].obj, evidence_by_id)]
    IN  IF \E i \in 1..Len(each) : each[i].raised # "" THEN TypeError
        ELSE Returned(FlattenSeq([i \in 1..Len(each) |-> each[i].violations]))

\* INV-PR-001
require_ranked_options_reference_existing_options(ps) ==
    LET opts == _as_list(_get(ps, "options"))
        option_ids == {PyToStr(_get(opts[i], "option_id")) :
                          i \in {j \in 1..Len(opts) : Truthy(_get(opts[j], "option_id"))}}
        ros == _as_list(_get(ps, "ranked_options"))
    IN  FlattenSeq([i \in 1..Len(ros) |->
            LET ref == _get(ros[i], "option_ref")
            IN  IF Truthy(ref) /\ PyToStr(ref) \notin option_ids
                THEN <<InvariantViolation("INV-PR-001", <<PyToStr(ref)>>)>> ELSE <<>>])

\* the number a rank counts as in set() and sorted(): True is 1, False is 0
RankNumber(x) == IF x.t = "bool" THEN (IF x.b THEN 1 ELSE 0) ELSE x.n

\* a variant of the strict-total-order rule that does not look for gaps
require_ranked_options_strict_total_order_nogap(ps) ==
    LET ros == _as_list(_get(ps, "ranked_options"))
        ranks == [i \in 1..Len(ros) |-> _get(ros[i], "rank")]
        refs == [i \in 1..Len(ros) |-> _get(ros[i], "option_ref")]
    IN  IF ros = <<>> THEN Returned(<<>>)
        ELSE IF \E i \in 1..Len(ranks) : ranks[i].t \notin {"int", "bool"}
        THEN Returned(<<InvariantViolation("INV-PR-002", <<>>)>>)
        ELSE IF Cardinality({RankNumber(ranks[i]) : i \in 1..Len(ranks)}) # Len(ranks)
        THEN Returned(<<InvariantViolation("INV-PR-002", <<>>)>>)
        ELSE IF \E i \in 1..Len(refs) : refs[i].t \in {"list", "map"} THEN TypeError
        ELSE IF Cardinality(Range(refs)) # Len(refs)
        THEN Returned(<<InvariantViolation("INV-PR-002", <<>>)>>)
        ELSE Returned(<<>>)

\* INV-PR-002; set(refs) raises for a reference that is not hashable
require_ranked_options_strict_total_order(ps) ==
    LET ros == _as_list(_get(ps, "ranked_options"))
        ranks == [i \in 1..Len(ros) |-> _get(ros[i], "rank")]
        refs == [i \in 1..Len(ros) |-> _get(ros[i], "option_ref")]
    IN  IF ros = <<>> THEN Returned(<<>>)
        ELSE IF \E i \in 1..Len(ranks) : ranks[i].t \notin {"int", "bool"}
        THEN Returned(<<InvariantViolation("INV-PR-002", <<>>)>>)
        ELSE IF Cardinality({RankNumber(ranks[i]) : i \in 1..Len(ranks)}) # Len(ranks)
        THEN Returned(<<InvariantViolation("INV-PR-002", <<>>)>>)
        ELSE IF {RankNumber(ranks[i]) : i \in 1..Len(ranks)} # 1..Len(ranks)
        THEN Returned(<<InvariantViolation("INV-PR-002", <<>>)>>)
        ELSE IF \E i \in 1..Len(refs) : refs[i].t \in {"list", "map"} THEN TypeError
        ELSE IF Cardinality(Range(refs)) # Len(refs)
        THEN Returned(<<InvariantViolation("INV-PR-002", <<>>)>>)
        ELSE Returned(<<>>)

_EXEC_OVERRIDE_FIELDS == {"override_id", "apply_override", "approved_by", "expires_at"}

\* INV-PS-003
require_override_suggestions_non_executable(ps) ==
    LET osugs == _as_list(_get(ps, "override_suggestions"))
    IN  FlattenSeq([i \in 1..Len(osugs) |->
            IF \E k \in _EXEC_OVERRIDE_FIELDS : _get(osugs[i], k) # PyNone
            THEN <<InvariantViolation("INV-PS-003", <<>>)>> ELSE <<>>])

\* validate_proposalset(ps, evidence_by_id=...)
validate_proposalset(ps, evidence_by_id) ==
    LET ev == require_proposalset_evidence_refs_resolve(ps, evidence_by_id)
        order == require_ranked_options_strict_total_order(ps)
    IN  IF ev.raised # "" THEN ev
        ELSE IF order.raised # "" THEN order
        ELSE Returned(require_proposalset_header_fields(ps)
                      \o require_no_forbidden_artifact_fields(ps)
                      \o require_provider_artifacts_declare_fields(ps)
                      \o ev.violations
                      \o require_ranked_options_reference_existing_options(ps)
                      \o order.violations
                      \o require_override_suggestions_non_executable(ps))

(***************************************************************************)
(* intake/provider_adapter_v1.py : strict batch validation                  *)
(***************************************************************************)
\* the strings drawn for the sort key, in the order Python compares them
StringOrder == <<"", "acme", "m", "run1", "stub", "zeta">>

StrIndex(s) == CHOOSE i \in 1..Len(StringOrder) : StringOrder[i] = s

\* the key of sorted(): str(_get(ps, k, "")) for the three header ids
SortKey(ps) ==
    [k \in 1..3 |->
        LET x == _get(ps, <<"provider_id", "model_id", "run_id">>[k])
        IN  StrIndex(IF x.t = "none" THEN "" ELSE PyToStr(x))]

\* tuple comparison k1 < k2
KeyLess(k1, k2) ==
    \E i \in 1..3 : k1[i] < k2[i] /\ \A j \in 1..(i - 1) : k1[j] = k2[j]

\* sorted(list(proposal_sets), key=...): stable, equal keys keep input order
RECURSIVE sorted_by_key(_)
sorted_by_key(seq) ==
    IF seq = <<>> THEN <<>>
    ELSE LET rest == sorted_by_key(Tail(seq))
             below == SelectSeq(rest, LAMBDA x : KeyLess(SortKey(x), SortKey(Head(seq))))
             others == SelectSeq(rest, LAMBDA x : ~KeyLess(SortKey(x), SortKey(Head(seq))))
         IN  below \o <<Head(seq)>> \o others

ProviderGateResult(raised, accepted, rejected) == [raised |-> raised, accepted |-> accepted, rejected |-> rejected]

_validate_provider_sets_strict(proposal_sets, evidence_by_id) ==
    LET ordered == sorted_by_key(proposal_sets)
        v == [i \in 1..Len(ordered) |-> validate_proposalset(ordered[i], evidence_by_id)]
        idx == [i \in 1..Len(ordered) |-> i]
    IN  IF \E i \in 1..Len(v) : v[i].raised # "" THEN ProviderGateResult("TypeError", <<>>, <<>>)
        ELSE ProviderGateResult("",
                 FlattenSeq([i \in 1..Len(ordered) |->
                     IF v[i].violations = <<>> THEN <<ordered[i]>> ELSE <<>>]),
                 FlattenSeq([i \in 1..Len(ordered) |->
                     IF v[i].violations # <<>>
                     THEN <<[ps |-> ordered[i], violations |-> v[i].violations]>>
                     ELSE <<>>]))

(***************************************************************************)
(* The provider boundary as a state machine: gin holds a batch of bundles   *)
(* and the evidence index, report the last call and what it returned.       *)
(***************************************************************************)
MaxBatch == 2

\* a sub-item of a section
Item(evidence_refs, option_id, rank, option_ref, apply_override) ==
    PyMap([confidence |-> PyFloat(60), uncertainty |-> PyMap([level |-> PyFloat(40)]),
           evidence_refs |-> evidence_refs, limits |-> PyStr("lim"),
           option_id |-> option_id, rank |-> rank, option_ref |-> option_ref,
           apply_override |-> apply_override])

ResolvingRefs == PyList(<<PyStr("ev_1")>>)

RankedItem(rank, option_ref) == Item(ResolvingRefs, PyNone, rank, option_ref, PyNone)

\* a bundle: header, one extra top-level field, and the four sections
ProposalSet(provider_id, limits, field, evidence_refs, ranked_options, override_suggestions) ==
    PyMap([provider_id |-> provider_id, model_id |-> PyStr("m"), run_id |-> PyStr("run1"),
           sampling |-> PyMap([temperature |-> PyFloat(0)]), limits |-> limits,
           recommendation |-> IF field = "recommendation" THEN PyMap([x |-> PyInt(1)]) ELSE PyNone,
           choice_record |-> IF field = "choice_record" THEN PyMap([x |-> PyInt(1)]) ELSE PyNone,
           outcome |-> IF field = "outcome" THEN PyMap([x |-> PyInt(1)]) ELSE PyNone,
           review_record |-> IF field = "review_record" THEN PyMap([x |-> PyInt(1)]) ELSE PyNone,
           calibration_note |-> IF field = "calibration_note" THEN PyMap([x |-> PyInt(1)]) ELSE PyNone,
           override |-> IF field = "override" THEN PyMap([x |-> PyInt(1)]) ELSE PyNone,
           notes |-> IF field = "notes" THEN PyStr("x") ELSE PyNone,
           interpretations |-> PyList(<<Item(ResolvingRefs, PyNone, PyNone, PyNone, PyNone)>>),
           options |-> PyList(<<Item(evidence_refs, PyStr("o1"), PyNone, PyNone, PyNone),
                                Item(ResolvingRefs, PyStr("o2"), PyNone, PyNone, PyNone)>>),
           ranked_options |-> ranked_options,
           override_suggestions |-> override_suggestions])

ExtraFields == _FORBIDDEN_FIELDS \cup {"", "notes"}

\* evidence_refs values of the first option
EvidenceRefValues ==
    {ResolvingRefs, PyNone, PyList(<<>>), PyList(<<PyStr("ev_x")>>), PyStr("e"), PyInt(5),
     PyList(<<PyInt(5)>>), PyList(<<PyList(<<PyStr("ev_1")>>)>>)}

\* ranked_options sections
RankedSections ==
    LET o1 == PyStr("o1")
        o2 == PyStr("o2")
        two(r1, f1, r2, f2) == PyList(<<RankedItem(r1, f1), RankedItem(r2, f2)>>)
    IN  {two(PyInt(1), o1, PyInt(2), o2), two(PyInt(2), o2, PyInt(1), o1),
         two(PyInt(1), o1, PyInt(3), o2), two(PyInt(1), o1, PyInt(1), o2),
         two(PyInt(0), o1, PyInt(1), o2), two(PyInt(1), o1, PyInt(2), o1),
         two(PyBool(TRUE), o1, PyInt(2), o2), two(PyFloat(100), o1, PyInt(2), o2),
         two(PyNone, o1, PyInt(2), o2), two(PyInt(1), o1, PyInt(2), PyStr("zz")),
         two(PyInt(1), PyNone, PyInt(2), PyNone), two(PyInt(1), o1, PyInt(2), PyInt(5)),
         two(PyInt(1), PyList(<<o1>>), PyInt(2), o2),
         two(PyInt(1), PyList(<<o1>>), PyInt(3), o2),
         PyList(<<RankedItem(PyInt(1), o1)>>), PyList(<<PyInt(5)>>),
         RankedItem(PyInt(1), o1), PyList(<<>>), PyNone}

OverrideSections ==
    {PyList(<<>>), PyList(<<Item(ResolvingRefs, PyNone, PyNone, PyNone, PyBool(TRUE))>>)}

\* the bundle of the tests: every rule passes
GoodProposalSet ==
    ProposalSet(PyStr("stub"), PyStr("lim"), "", ResolvingRefs,
                PyList(<<RankedItem(PyInt(1), PyStr("o1")), RankedItem(PyInt(2), PyStr("o2"))>>),
                PyList(<<>>))

ProposalSets ==
    {ProposalSet(pid, PyStr("lim"), f, ev, ro, PyList(<<>>)) :
        pid \in {PyStr("stub"), PyNone}, f \in ExtraFields,
        ev \in EvidenceRefValues, ro \in RankedSections}
    \cup {ProposalSet(PyStr("stub"), PyStr("lim"), f, ResolvingRefs, GoodProposalSet.m.ranked_options, os) :
             f \in ExtraFields, os \in OverrideSections}
    \cup {PyInt(5), PyNone}

\* bundles of a batch: two that share the sort key, and others that sort
\* before and after them
BatchSets ==
    {GoodProposalSet,
     ProposalSet(PyStr("stub"), PyStr("other limits"), "", ResolvingRefs, PyList(<<>>), PyList(<<>>)),
     ProposalSet(PyStr("acme"), PyStr("lim"), "recommendation", ResolvingRefs, PyList(<<>>), PyList(<<>>)),
     ProposalSet(PyStr("zeta"), PyStr("lim"), "", ResolvingRefs, PyList(<<>>), PyList(<<>>)),
     ProposalSet(PyStr("zeta"), PyStr(""), "", PyList(<<PyStr("ev_x")>>), PyList(<<>>), PyList(<<>>))}

EvidenceById == {"ev_1"}

ProviderInit ==
    /\ gin \in [proposal_sets : {<<b>> : b \in ProposalSets}
                                \cup UNION {[1..n -> BatchSets] : n \in 0..MaxBatch},
                evidence_by_id : {EvidenceById}]
    /\ gout = NoGate
    /\ data = EmptyStore.data
    /\ ids_by_type = EmptyStore.ids_by_type
    /\ ims = EmptyStore
    /\ minted = [ch |-> 0, out |-> 0]
    /\ report = NoReport

ValidateProposalset ==
    \E i \in 1..Len(gin.proposal_sets) :
        LET ps == gin.proposal_sets[i]
            r == validate_proposalset(ps, gin.evidence_by_id)
        IN  /\ report' = [op |-> "validate_proposalset", ps |-> ps,
                          raised |-> r.raised, violations |-> r.violations]
            /\ UNCHANGED <<gin, gout, data, ids_by_type, ims, minted>>

RequireStrictTotalOrder ==
    \E i \in 1..Len(gin.proposal_sets) :
        LET ps == gin.proposal_sets[i]
            r == require_ranked_options_strict_total_order(ps)
        IN  /\ report' = [op |-> "require_ranked_options_strict_total_order", ps |-> ps,
                          raised |-> r.raised, violations |-> r.violations]
            /\ UNCHANGED <<gin, gout, data, ids_by_type, ims, minted>>

ValidateProviderSetsStrict ==
    LET r == _validate_provider_sets_strict(gin.proposal_sets, gin.evidence_by_id)
    IN  /\ report' = [op |-> "_validate_provider_sets_strict",
                      proposal_sets |-> gin.proposal_sets, raised |-> r.raised,
                      accepted |-> r.accepted, rejected |-> r.rejected]
        /\ UNCHANGED <<gin, gout, data, ids_by_type, ims, minted>>

ProviderNext ==
    \/ ValidateProposalset
    \/ RequireStrictTotalOrder
    \/ ValidateProviderSetsStrict

SpecProvider == ProviderInit /\ [][ProviderNext]_vars

\* the rule ids of a sequence of violations
RuleSet(violations) == {violations[i].rule : i \in 1..Len(violations)}

(***************************************************************************)
(* Claims about the action-class gate (checked under SpecGate)             *)
(***************************************************************************)
GateSetOf(option, orientation) ==
    gate_allowed_action_classes(
        derived_riskiness(impact_level(option.impact), reversibility_level(option.reversibility)),
        uncertainty_level(option.uncertainty),
        orientation.risk_posture)

\* C4: for an option with non-empty dependencies, requires_override is true
\* exactly when the declared action class is outside the computed allowed set,
\* and allowed is true exactly when the class is in the set or the override is
\* valid.
C4_LegalityDecoupled ==
    (gout.op = "legality" /\ gin.option.dependencies # <<>>) =>
        LET inSet == gin.option.action_class \in GateSetOf(gin.option, gin.orientation)
            valid == override_is_valid(gin.orientation, gin.override_scope_used)
        IN  /\ gout.result.requires_override = (~inSet)
            /\ gout.result.allowed = (inSet \/ valid)

\* a gate-violating COMMIT that a valid override makes allowed: (true, true, ...)
C4_Witness ==
    /\ gout.op = "legality"
    /\ gin.option.dependencies # <<>>
    /\ gin.option.action_class = "COMMIT"
    /\ "COMMIT" \notin GateSetOf(gin.option, gin.orientation)
    /\ gout.result.allowed
    /\ gout.result.requires_override

\* the engine's levels and classes in the standalone gate's vocabulary
Upper(l) == CASE l = "low" -> "LOW" [] l = "med" -> "MED" [] l = "high" -> "HIGH"
                [] l = "unknown" -> "UNKNOWN"
UpperSet(S) == {CASE a = "probe" -> "PROBE" [] a = "limited" -> "LIMITED" [] a = "commit" -> "COMMIT" : a \in S}

\* the table the specification gives for the default posture
SpecifiedDefaultSet(risk, unc) ==
    IF risk = "HIGH"
    THEN (IF unc = "LOW" THEN {"PROBE", "LIMITED", "COMMIT"} ELSE {"PROBE"})
    ELSE IF risk = "MED"
    THEN (IF unc = "HIGH" THEN {"PROBE"} ELSE {"PROBE", "LIMITED"})
    ELSE {"PROBE", "LIMITED", "COMMIT"}

\* C5: under the default posture both gates return, for every (riskiness,
\* uncertainty) pair, the set of the specified table: HIGH -> {PROBE} unless
\* uncertainty is LOW (then all three); MED -> {PROBE, LIMITED} unless
\* uncertainty is HIGH (then {PROBE}); LOW -> all three.
C5_DefaultTable ==
    /\ gout.op = "allowed" =>
          gout.by_posture["DEFAULT"] = SpecifiedDefaultSet(gin.risk, gin.unc)
    /\ (gout.op = "engine_allowed" /\ gin.uncertainty # "unknown") =>
          UpperSet(gout.allowed) = SpecifiedDefaultSet(Upper(gout.risk), Upper(gin.uncertainty))

\* C6: for a fixed reversibility band and uncertainty band, the set allowed at
\* a higher impact band is a subset of the set allowed at a lower impact band,
\* for the standalone gate and for the engine's gate.
C6_ImpactMonotone ==
    /\ gout.op = "sweep" =>
          \A i1, i2 \in Level3 :
              LevelRank(i1) <= LevelRank(i2) => gout.by_impact[i2] \subseteq gout.by_impact[i1]
    /\ gout.op = "engine_sweep" =>
          \A i1, i2 \in ImpactLevel :
              LevelRank(Upper(i1)) <= LevelRank(Upper(i2)) =>
                  gout.by_impact[i2] \subseteq gout.by_impact[i1]

\* C7: for every riskiness and uncertainty band the set allowed under the
\* CONSERVATIVE posture is a subset of the set allowed under DEFAULT and never
\* contains COMMIT.
C7_ConservativeNeverLoosens ==
    gout.op = "allowed" =>
        /\ gout.by_posture["CONSERVATIVE"] \subseteq gout.by_posture["DEFAULT"]
        /\ "COMMIT" \notin gout.by_posture["CONSERVATIVE"]

\* the conservative posture has removed COMMIT from a set that had it
C7_Witness ==
    /\ gout.op = "allowed"
    /\ "COMMIT" \in gout.by_posture["DEFAULT"]
    /\ "COMMIT" \notin gout.by_posture["CONSERVATIVE"]

BlankStrings == {"", "   "}

\* C8: override_is_valid is true if and only if the orientation declares the
\* extended-permission mode, a non-empty override_scope and a non-blank
\* override_rationale, and override_scope_used is a non-empty subset of the
\* declared scope.
C8_OverrideIff ==
    gout.op = "override" =>
        LET o == gin.orientation
            u == gin.override_scope_used
        IN  gout.ok <=>
                /\ o.governance_mode = "EXTENDED_ALLOWED"
                /\ ~IsNone(o.override_scope) /\ o.override_scope.v # {}
                /\ ~IsNone(o.override_rationale) /\ o.override_rationale.v \notin BlankStrings
                /\ ~IsNone(u) /\ u.v # {}
                /\ u.v \subseteq o.override_scope.v

\* declared scope {A, B} with a rationale: {A} has been validated
C8_Witness ==
    /\ gout.op = "override"
    /\ gin.orientation.override_scope = Some({"A", "B"})
    /\ gin.override_scope_used = Some({"A"})
    /\ gout.ok

\* C9: an option whose dependencies are empty gets (false, false, ...)
\* whatever its attributes, even when orientation and requested scope form a
\* valid override.
C9_DependencylessRejected ==
    (gout.op = "legality" /\ gin.option.dependencies = <<>>) =>
        /\ ~gout.result.allowed
        /\ ~gout.result.requires_override

\* a dependency-less, gate-violating option with a valid override was rejected
C9_Witness ==
    /\ gout.op = "legality"
    /\ gin.option.dependencies = <<>>
    /\ gin.option.action_class \notin GateSetOf(gin.option, gin.orientation)
    /\ override_is_valid(gin.orientation, gin.override_scope_used)
    /\ ~gout.result.allowed
    /\ ~gout.result.requires_override

(***************************************************************************)
(* Claims about the episode validator (checked under Spec)                  *)
(***************************************************************************)
\* the last call was validate_episode on a stored episode
EpisodeValidated ==
    /\ report.op = "validate_episode"
    /\ has(Store, "DecisionEpisode", report.subject[2])

ValidatedEpisode == data["DecisionEpisode"][report.subject[2]]

\* the call returned a report that holds a violation of the rule
Reports(rule) ==
    /\ report.raised = ""
    /\ \E i \in 1..Len(report.violations) : report.violations[i].rule = rule

\* C1: validate_episode reports INV-CHO-001, with ok = false, for every stored
\* episode that is acted and lists no choice id, and never reports it for an
\* episode that is not acted or lists a choice id.  (Acted is read as the
\* validator reads it: the acted field or the legacy meta flag.)
C1_ActedWithoutChoice ==
    EpisodeValidated =>
        LET ep == ValidatedEpisode
        IN  IF _episode_acted(ep) /\ ep.choice_ids = <<>>
            THEN Reports("INV-CHO-001") /\ ~ok(report)
            ELSE ~Reports("INV-CHO-001")

\* C2: validate_episode reports INV-OUT-001 for a stored episode if and only
\* if the episode is acted, lists a recommendation id and lists no outcome id:
\* from choose / act_on_option until log_outcome, and never afterwards.
C2_ActedWithoutOutcome ==
    EpisodeValidated =>
        LET ep == ValidatedEpisode
        IN  Reports("INV-OUT-001") <=>
                /\ _episode_acted(ep)
                /\ ep.recommendation_ids # <<>>
                /\ ep.outcome_ids = <<>>

(***************************************************************************)
(* Claims about recommendation validation (checked under SpecRules)         *)
(***************************************************************************)
\* the last call validated the stored Recommendation r1 through one of the
\* given entry points
RecValidated(ops) ==
    /\ report.op \in ops
    /\ report.raised = ""
    /\ has(Store, "Recommendation", "r1")
    /\ report.subject \in {<<"Recommendation", "r1">>, <<"DecisionEpisode", "ep1">>}

ValidatedRec == data["Recommendation"]["r1"]

AllRankedResolve(rec) == \A oid \in Range(RankedOptionIds(rec)) : has(Store, "Option", oid)

\* the option the recommendation ranks first
RankOneOption(rec) ==
    data["Option"][(CHOOSE ro \in Range(rec.ranked_options) : ro.rank = 1).option_id]

\* every reference resolves and the rank-1 option shares no evidence id and
\* no observation id with the recommendation
ProvenanceDrift(rec) ==
    /\ rec.ranked_options # <<>>
    /\ AllRankedResolve(rec)
    /\ \A oid \in OptionIds : has(Store, "Option", oid)
    /\ Range(rec.evidence_ids) \cap Range(RankOneOption(rec).evidence_ids) = {}
    /\ Range(rec.observation_ids) \cap Range(RankOneOption(rec).observation_ids) = {}

\* C3: every validation path - rules.validate_recommendation, validate_all,
\* validate_recommendation(store, id) and validate_episode(store, id) - returns
\* a report with a violation (ok = false) for a Recommendation whose rank-1
\* Option shares no evidence id and no observation id with it, even when every
\* referenced artifact resolves.
C3_ProvenanceDriftRejected ==
    (/\ RecValidated({"rules_validate_recommendation", "rules_validate_all",
                      "validate_recommendation", "validate_episode"})
     /\ ProvenanceDrift(ValidatedRec))
        => (report.violations # <<>> /\ ~ok(report))

ReportsAbout(rule, oid) ==
    \E i \in 1..Len(report.violations) :
        report.violations[i].rule = rule /\ oid \in Range(report.violations[i].about)

\* the class an option declares, read without regard to case and surrounding
\* blanks: "" when it declares none of probe / limited / commit
DeclaredClass(opt) ==
    IF IsNone(opt.action_class) THEN ""
    ELSE IF Lower(Strip(opt.action_class.v)) \in {"probe", "limited", "commit"}
    THEN Lower(Strip(opt.action_class.v))
    ELSE ""

OutsideGate(opt) ==
    /\ DeclaredClass(opt) # ""
    /\ DeclaredClass(opt) \notin allowed_action_classes(bucket_impact_level(opt),
                                  bucket_reversibility_level(opt), bucket_uncertainty_level(opt))

GateBypass(rec) == rec.override_used /\ "ALLOW_GATE_BYPASS" \in Range(rec.override_scope_used)

\* what the gate owes one resolved ranked option
GateReportedFor(rec, opt) ==
    IF opt.kind = "execute"
    THEN /\ DeclaredClass(opt) = "" => ReportsAbout("INV-ACT-001", opt.option_id)
         /\ (OutsideGate(opt) /\ ~GateBypass(rec)) => ReportsAbout("INV-ACT-002", opt.option_id)
         /\ GateBypass(rec) => ~ReportsAbout("INV-ACT-002", opt.option_id)
    ELSE /\ ~ReportsAbout("INV-ACT-001", opt.option_id)
         /\ ~ReportsAbout("INV-ACT-002", opt.option_id)

GateReported(rec) ==
    \A oid \in Range(RankedOptionIds(rec)) :
        has(Store, "Option", oid) => GateReportedFor(rec, data["Option"][oid])

RecommendationValidators ==
    {"rules_validate_recommendation", "rules_validate_all", "validate_recommendation",
     "validate_episode"}

StoreValidators == {"validate_recommendation", "validate_episode"}

\* C10 as stated: for every ranked option of kind EXECUTE recommendation
\* validation reports INV-ACT-001 when the action class is missing or not one
\* of probe / limited / commit, and INV-ACT-002 when the declared class is
\* outside the allowed set, unless the Recommendation used an override with
\* ALLOW_GATE_BYPASS; HEDGE and INFO_GATHERING options produce neither.
C10_GateReported ==
    RecValidated(RecommendationValidators) => GateReported(ValidatedRec)

\* C10 restricted: the same, for the pure validators always and for the
\* store-based validators when every ranked option id resolves; when one does
\* not resolve the store-based validators report missing_reference and no
\* INV-ACT violation.
C10_GateReportedWhenResolved ==
    /\ (RecValidated(RecommendationValidators)
        /\ (report.op \in StoreValidators => AllRankedResolve(ValidatedRec)))
           => GateReported(ValidatedRec)
    /\ (RecValidated(StoreValidators) /\ ~AllRankedResolve(ValidatedRec))
           => \A i \in 1..Len(report.violations) :
                  report.violations[i].rule \notin {"INV-ACT-001", "INV-ACT-002"}

\* the store-based validator has reported INV-ACT-002 for a resolved EXECUTE
\* option that declares a class outside its allowed set, without bypass
C10_Witness ==
    /\ RecValidated({"validate_recommendation"})
    /\ AllRankedResolve(ValidatedRec)
    /\ ~GateBypass(ValidatedRec)
    /\ \E oid \in Range(RankedOptionIds(ValidatedRec)) :
           /\ data["Option"][oid].kind = "execute"
           /\ OutsideGate(data["Option"][oid])
           /\ ReportsAbout("INV-ACT-002", oid)

(***************************************************************************)
(* Claims about the stores (checked under SpecStore)                        *)
(***************************************************************************)
\* the store a recorded call was made on, as it is now
CalledStore == IF report.op \in {"put", "resolve_many"} THEN Store ELSE ims

\* C11: resolve_many(type, ids) leaves the store unchanged; found holds the
\* stored artifacts of that type for the ids that are present, in input order,
\* errors holds one ResolveError(type, id) per absent id, in input order, and
\* len(found) + len(errors) = len(ids); for both stores.
C11_ResolveManyPartitions ==
    report.op \in {"resolve_many", "ims_resolve_many"} =>
        LET st == CalledStore
            present(id) == id \in DOMAIN st.data[report.cls]
            absent(id) == ~present(id)
            hits == SelectSeq(report.ids, present)
            misses == SelectSeq(report.ids, absent)
        IN  /\ report.before = st
            /\ report.result.found = [i \in 1..Len(hits) |-> st.data[report.cls][hits[i]]]
            /\ report.result.errors =
                   [i \in 1..Len(misses) |-> [artifact_type |-> report.cls, artifact_id |-> misses[i]]]
            /\ Len(report.result.found) + Len(report.result.errors) = Len(report.ids)

\* resolve_many(Option, [o2, o1, o2]) found o2 twice and o1 once, and
\* resolve_many(Option, [zz, o1, o2]) returned one error next to two artifacts
C11_Witness ==
    /\ report.op \in {"resolve_many", "ims_resolve_many"}
    /\ report.cls = "Option"
    /\ \/ report.ids = <<"o2", "o1", "o2">> /\ Len(report.result.found) = 3
       \/ /\ report.ids = <<"zz", "o1", "o2">>
          /\ Len(report.result.found) = 2 /\ Len(report.result.errors) = 1

\* an artifact's own identifier
OwnId(a) ==
    CASE a.cls = "ChoiceRecord" -> a.choice_id
      [] a.cls = "CalibrationNote" -> a.calibration_id
      [] a.cls = "Option" -> a.option_id

\* C12: put(a) stores a under (type of a, a's own identifier) and returns that
\* identifier, so must_get(type(a), own id) returns a; an artifact stored
\* before under a different own identifier is still stored afterwards.
C12_PutKeyedByOwnId ==
    report.op = "put" =>
        /\ report.id = OwnId(report.obj)
        /\ get(Store, report.obj.cls, OwnId(report.obj)) = Some(report.obj)
        /\ \A k \in DOMAIN report.before.data[report.obj.cls] :
               LET b == report.before.data[report.obj.cls][k]
               IN  OwnId(b) # OwnId(report.obj) =>
                       \E k2 \in DOMAIN data[report.obj.cls] : data[report.obj.cls][k2] = b

(***************************************************************************)
(* Claims about missing artifacts (checked under Spec)                      *)
(***************************************************************************)
\* C13: validate_episode and validate_recommendation never raise because an
\* artifact is missing: when the subject id, or a recommendation id listed by
\* the episode, is absent from the store they return a report with ok = false
\* whose resolve_errors name the (type, id) that failed to resolve, and every
\* resolve error names an artifact that is absent.
C13_MissingArtifactReported ==
    report.op \in {"validate_episode", "validate_recommendation"} =>
        LET cls == report.subject[1]
            id == report.subject[2]
            named == Range(report.resolve_errors)
        IN  /\ report.raised = ""
            /\ ~has(Store, cls, id) =>
                   (~ok(report) /\ report.resolve_errors = <<ResolveError(cls, id)>>)
            /\ (cls = "DecisionEpisode" /\ has(Store, cls, id)) =>
                   \A rid \in Range(data[cls][id].recommendation_ids) :
                       ~has(Store, "Recommendation", rid) =>
                           (~ok(report) /\ ResolveError("Recommendation", rid) \in named)
            /\ \A e \in named : ~has(Store, e.artifact_type, e.artifact_id)

(***************************************************************************)
(* Claims about Recommendation values (checked under SpecRec)               *)
(***************************************************************************)
\* the ranks are exactly 1..N, each once
RanksAreOneToN(ranked_options) ==
    \A k \in 1..Len(ranked_options) :
        Cardinality({i \in 1..Len(ranked_options) : ranked_options[i].rank = k}) = 1

\* C14: every Recommendation obtained by construction followed by
\* add_ranked_options calls has ranks that are exactly {1..N} without repeat or
\* gap; a construction or add_ranked_options call that would break this fails
\* and produces no Recommendation.
C14_RanksContiguous ==
    report.op \in {"Recommendation", "add_ranked_options"} =>
        /\ ~IsNone(report.held) => RanksAreOneToN(report.held.v.ranked_options)
        /\ ~IsNone(report.result) => RanksAreOneToN(report.result.v.ranked_options)
        /\ ~RanksAreOneToN(report.ranked_options) => IsNone(report.result)

\* an add_ranked_options call on a Recommendation with two ranked options,
\* which would leave a gap below the new rank, failed and left the caller
\* with the two
C14_Witness ==
    /\ report.op = "add_ranked_options"
    /\ IsNone(report.result)
    /\ Len(report.held.v.ranked_options) = 2
    /\ Len(report.ranked_options) = 3
    /\ report.ranked_options[3].rank = MaxRanked

(***************************************************************************)
(* Claims about DecisionEpisode values (checked under SpecEpisode)          *)
(***************************************************************************)
\* the episode has a chosen option
HasChosen(ep) == ~IsNone(ep.chosen_option_id) /\ ep.chosen_option_id.v # ""

\* C15: once chosen_option_id has a value X it never takes a different value:
\* an operation on an episode whose chosen_option_id is X leaves the caller
\* with an episode whose chosen_option_id is X, and mark_acted or
\* act_on_option naming a different option raises.
C15_ChosenNeverChanges ==
    (report.op = "episode_op" /\ HasChosen(report.receiver)) =>
        /\ report.held.chosen_option_id = report.receiver.chosen_option_id
        /\ ~IsNone(report.result) =>
               report.result.v.chosen_option_id = report.receiver.chosen_option_id

\* C15 as it holds: once an acted episode has chosen_option_id X it never
\* takes a different value; mark_acted or act_on_option naming a different
\* option raises, and mark_acted naming X or no option keeps X.
C15_ChosenNeverChangesOnceActed ==
    (report.op = "episode_op" /\ HasChosen(report.receiver) /\ report.receiver.acted) =>
        /\ report.held.chosen_option_id = report.receiver.chosen_option_id
        /\ ~IsNone(report.result) =>
               report.result.v.chosen_option_id = report.receiver.chosen_option_id
        /\ (report.name = "mark_acted" /\ report.arg = None) => report.raised = ""
        /\ (report.name = "mark_acted" /\ report.arg # None) =>
               (report.raised = "ValueError") = (report.arg # report.receiver.chosen_option_id)
        /\ report.name = "act_on_option" =>
               (report.raised = "ValueError") = (report.arg # report.receiver.chosen_option_id.v)

\* mark_acted naming b on an acted episode that chose a raised, and the
\* caller still holds an episode that chose a
C15_Witness ==
    /\ report.op = "episode_op"
    /\ report.name = "mark_acted"
    /\ report.receiver.acted
    /\ report.receiver.chosen_option_id = Some("a")
    /\ report.arg = Some("b")
    /\ report.raised = "ValueError"
    /\ report.held.chosen_option_id = Some("a")

\* s is a prefix of t
IsPrefix(s, t) == Len(s) <= Len(t) /\ SubSeq(t, 1, Len(s)) = s

\* C16: every episode operation that returns gives an episode in which each
\* id list has the receiver's list as a prefix and in which acted is true
\* whenever it was true in the receiver; the caller's episode never loses an
\* id and never goes back to not acted.
C16_OperationsMonotonic ==
    report.op = "episode_op" =>
        /\ ~IsNone(report.result) =>
               /\ \A f \in IdLists : IsPrefix(report.receiver[f], report.result.v[f])
               /\ report.receiver.acted => report.result.v.acted
        /\ \A f \in IdLists : IsPrefix(report.receiver[f], report.held[f])
        /\ report.receiver.acted => report.held.acted

\* add_options(b, a) on an acted episode that lists option a returned an
\* acted episode listing a, then b
C16_Witness ==
    /\ report.op = "episode_op"
    /\ report.name = "add_options"
    /\ report.receiver.acted
    /\ report.receiver.option_ids = <<"a">>
    /\ report.arg = <<"b", "a">>
    /\ ~IsNone(report.result)
    /\ report.result.v.option_ids = <<"a", "b">>
    /\ report.result.v.acted

(***************************************************************************)
(* Claims about choices, reviews and calibrations of a validated episode    *)
(***************************************************************************)
\* the id refers to a stored artifact of the class that the episode lists
ExistsInEpisode(cls, listed, id) == id \in Range(listed) /\ has(Store, cls, id)

\* C17: for every ChoiceRecord listed by a validated, acted episode,
\* validate_episode reports INV-CHO-002 when the choice's recommendation_id or
\* option_id does not refer to an existing Recommendation / Option of the
\* episode, INV-CHO-003 when both exist, used_override is false and the chosen
\* option is not among that Recommendation's ranked options, and never
\* INV-CHO-003 for a choice with used_override = true.
C17_ChoiceCoherence ==
    (EpisodeValidated /\ _episode_acted(ValidatedEpisode)) =>
        \A k \in DOMAIN data["ChoiceRecord"] :
            LET c == data["ChoiceRecord"][k]
                ep == ValidatedEpisode
                recOk == ExistsInEpisode("Recommendation", ep.recommendation_ids, c.recommendation_id)
                optOk == ExistsInEpisode("Option", ep.option_ids, c.option_id)
            IN  c.choice_id \in Range(ep.choice_ids) =>
                  /\ ~(recOk /\ optOk) =>
                         (report.raised = "" /\ ReportsAbout("INV-CHO-002", c.choice_id))
                  /\ (/\ recOk /\ optOk /\ ~c.used_override
                      /\ c.option_id \notin
                             Range(RankedOptionIds(data["Recommendation"][c.recommendation_id])))
                         => (report.raised = "" /\ ReportsAbout("INV-CHO-003", c.choice_id))
                  /\ c.used_override => ~ReportsAbout("INV-CHO-003", c.choice_id)

\* the recommendations the episode lists that are stored with override_used
OverriddenRecs(ep) ==
    {rid \in Range(ep.recommendation_ids) :
        has(Store, "Recommendation", rid) /\ data["Recommendation"][rid].override_used}

\* the review holds an audit entry for the recommendation with a non-empty
\* override scope and a rationale that is not blank
Audits(review, rid) ==
    /\ ~IsNone(review.overrides)
    /\ \E i \in 1..Len(review.overrides.v) :
           LET e == review.overrides.v[i]
           IN  /\ e.recommendation_id = Some(rid)
               /\ ~IsNone(e.override_scope_used) /\ e.override_scope_used.v # <<>>
               /\ ~IsNone(e.rationale) /\ Strip(e.rationale.v) # ""

\* C18: for an episode in which some resolved Recommendation has
\* override_used = true, validate_episode reports INV-REV-001 if and only if
\* the episode has no review id, and otherwise (the latest review being
\* stored) reports INV-REV-002 if and only if the latest review lacks, for
\* some overridden Recommendation, an audit entry for that recommendation id
\* with a non-empty override scope and a non-empty rationale; an episode with
\* no overridden Recommendation gets neither violation.
C18_OverrideReviewed ==
    EpisodeValidated =>
        LET ep == ValidatedEpisode
            latest == latest_review_id(ep)
        IN  IF OverriddenRecs(ep) = {}
            THEN ~Reports("INV-REV-001") /\ ~Reports("INV-REV-002")
            ELSE /\ Reports("INV-REV-001") = (ep.review_ids = <<>>)
                 /\ (ep.review_ids # <<>> /\ has(Store, "ReviewRecord", latest.v)) =>
                        (Reports("INV-REV-002") =
                            (\E rid \in OverriddenRecs(ep) :
                                ~Audits(data["ReviewRecord"][latest.v], rid)))

\* the report holds a violation of one of the rules that names the id
ReportsAnyAbout(rules, id) == \E r \in rules : ReportsAbout(r, id)

\* C19: for every CalibrationNote listed by a validated episode,
\* validate_episode reports INV-CAL-001 whenever the note's episode_id differs
\* from the id of the episode under validation (an empty episode_id
\* included), INV-CAL-002 when its review_id is empty, INV-CAL-003 when its
\* review_id does not resolve to a stored review, and INV-CAL-004 for each of
\* its outcome ids that does not resolve; a note for which none of these
\* holds produces no INV-CAL violation.
C19_CalibrationCoherence ==
    EpisodeValidated =>
        \A k \in DOMAIN data["CalibrationNote"] :
            LET c == data["CalibrationNote"][k]
                ep == ValidatedEpisode
                wrongEpisode == c.episode_id # ep.episode_id
                noReview == c.review_id = ""
                danglingReview == c.review_id # "" /\ ~has(Store, "ReviewRecord", c.review_id)
                dangling == {oid \in Range(c.outcome_ids) : ~has(Store, "Outcome", oid)}
            IN  c.calibration_id \in Range(ep.calibration_ids) =>
                  /\ report.raised = ""
                  /\ wrongEpisode => ReportsAbout("INV-CAL-001", c.calibration_id)
                  /\ noReview => ReportsAbout("INV-CAL-002", c.calibration_id)
                  /\ danglingReview => ReportsAbout("INV-CAL-003", c.calibration_id)
                  /\ \A oid \in dangling :
                         \E i \in 1..Len(report.violations) :
                             report.violations[i] =
                                 InvariantViolation("INV-CAL-004", <<c.calibration_id, oid>>)
                  /\ (~wrongEpisode /\ ~noReview /\ ~danglingReview /\ dangling = {}) =>
                         ~ReportsAnyAbout({"INV-CAL-001", "INV-CAL-002", "INV-CAL-003",
                                           "INV-CAL-004"}, c.calibration_id)

(***************************************************************************)
(* Claims about EXECUTE options of a recommendation (checked under          *)
(* SpecRules)                                                               *)
(***************************************************************************)
\* an EXECUTE option that has no upstream references, or whose
\* orientation_id is unset or differs from the Recommendation's, or that
\* declares no uncertainty
ExecuteDefect(rec, opt) ==
    /\ opt.kind = "execute"
    /\ \/ opt.observation_ids \o opt.interpretation_ids \o opt.evidence_ids = <<>>
       \/ IsNone(opt.orientation_id)
       \/ opt.orientation_id # Some(rec.orientation_id)
       \/ opt.uncertainties = <<>>

\* C20: the store-based validate_recommendation and validate_episode report a
\* violation for every ranked option of kind EXECUTE that has no upstream
\* references, or whose orientation_id is unset or differs from the
\* Recommendation's orientation_id, or that declares no uncertainty; a report
\* with ok = true implies that no ranked EXECUTE option has such a defect.
C20_ExecuteOptionsAudited ==
    RecValidated(StoreValidators) =>
        \A oid \in Range(RankedOptionIds(ValidatedRec)) :
            (has(Store, "Option", oid) /\ ExecuteDefect(ValidatedRec, data["Option"][oid])) =>
                /\ ~ok(report)
                /\ \E i \in 1..Len(report.violations) : oid \in Range(report.violations[i].about)

(***************************************************************************)
(* Claims about the provider boundary (checked under SpecProvider)         *)
(***************************************************************************)
ProposalsetValidated == report.op = "validate_proposalset"

\* the bundles drawn for which validate_proposalset returns no violation
CleanProposalSets == {g \in ProposalSets : validate_proposalset(g, EvidenceById) = Returned(<<>>)}

WithoutProviderId(g) == [g EXCEPT !.m.provider_id = PyNone]

WithRecommendation(g) == [g EXCEPT !.m.recommendation = PyMap([x |-> PyInt(1)])]

\* the highest of the ranks 1..N becomes N + 1
WithRankGap(g) ==
    LET ros == _as_list(_get(g, "ranked_options"))
    IN  [g EXCEPT !.m.ranked_options =
            PyList([i \in 1..Len(ros) |->
                IF RankNumber(_get(ros[i], "rank")) = Len(ros)
                THEN [ros[i] EXCEPT !.m.rank = PyInt(Len(ros) + 1)] ELSE ros[i]])]

\* C21: from a bundle for which validate_proposalset returns no violation,
\* one mutation trips only its own rule: without provider_id the rules of the
\* violations are exactly {INV-PS-001}, with a recommendation field exactly
\* {INV-PA-001}, and with the ranks changed to leave a gap exactly
\* {INV-PR-002}.
C21_OneMutationOneRule ==
    ProposalsetValidated =>
        \A g \in CleanProposalSets :
            /\ report.ps = WithoutProviderId(g) =>
                  report.raised = "" /\ RuleSet(report.violations) = {"INV-PS-001"}
            /\ report.ps = WithRecommendation(g) =>
                  report.raised = "" /\ RuleSet(report.violations) = {"INV-PA-001"}
            /\ (_as_list(_get(g, "ranked_options")) # <<>> /\ report.ps = WithRankGap(g)) =>
                  report.raised = "" /\ RuleSet(report.violations) = {"INV-PR-002"}

C21_Witness ==
    /\ ProposalsetValidated
    /\ GoodProposalSet \in CleanProposalSets
    /\ report.ps = WithRankGap(GoodProposalSet)
    /\ report.ps # GoodProposalSet
    /\ RuleSet(report.violations) = {"INV-PR-002"}

\* a bundle carries a field for a kernel-owned artifact kind
CarriesKernelOwnedField(ps) == \E f \in _FORBIDDEN_FIELDS : _get(ps, f) # PyNone

\* C22: validate_proposalset reports INV-PA-001 for every bundle that carries
\* a field for a kernel-owned artifact kind and for no bundle that carries
\* none; no bundle carrying such a field is returned without violations.
C22_ForbiddenFieldsReported ==
    ProposalsetValidated =>
        /\ report.raised = ""
        /\ CarriesKernelOwnedField(report.ps) <=> "INV-PA-001" \in RuleSet(report.violations)

\* the ranks are distinct integers covering exactly 1..N and no option
\* reference occurs twice (a bool is an int to isinstance, True counts as 1)
IsStrictTotalOrder(ps) ==
    LET ros == _as_list(_get(ps, "ranked_options"))
        ranks == [i \in 1..Len(ros) |-> _get(ros[i], "rank")]
        refs == [i \in 1..Len(ros) |-> _get(ros[i], "option_ref")]
    IN  /\ \A i \in 1..Len(ros) : ranks[i].t \in {"int", "bool"}
        /\ \A i, j \in 1..Len(ros) : RankNumber(ranks[i]) = RankNumber(ranks[j]) => i = j
        /\ \A i \in 1..Len(ros) : RankNumber(ranks[i]) \in 1..Len(ros)
        /\ \A i, j \in 1..Len(ros) : refs[i] = refs[j] => i = j

\* C23: require_ranked_options_strict_total_order returns no violation if and
\* only if the ranks are distinct integers covering exactly 1..N and no
\* option reference occurs twice; otherwise it returns INV-PR-002 violations.
C23_StrictTotalOrder ==
    report.op = "require_ranked_options_strict_total_order" =>
        /\ report.raised = ""
        /\ report.violations = <<>> <=> IsStrictTotalOrder(report.ps)
        /\ RuleSet(report.violations) \subseteq {"INV-PR-002"}

\* C24: validate_proposalset returns a list of violations and never raises,
\* however malformed the bundle.
C24_NeverRaises == ProposalsetValidated => report.raised = ""

Orderings(seq) ==
    {[i \in 1..Len(seq) |-> seq[p[i]]] :
        p \in {q \in [1..Len(seq) -> 1..Len(seq)] : \A i, j \in 1..Len(seq) : q[i] = q[j] => i = j}}

\* C29: batch validation accepts a bundle if and only if it has no violation
\* and otherwise rejects it together with its violations, and its result is
\* the same for every ordering of the batch, ordered by (provider_id,
\* model_id, run_id).
C29_BatchOrderIndependent ==
    (report.op = "_validate_provider_sets_strict" /\ report.raised = "") =>
        /\ \A i \in 1..Len(report.proposal_sets) :
              LET ps == report.proposal_sets[i]
                  v == validate_proposalset(ps, EvidenceById).violations
              IN  /\ ps \in Range(report.accepted) <=> v = <<>>
                  /\ v # <<>> <=> [ps |-> ps, violations |-> v] \in Range(report.rejected)
        /\ \A i \in 1..(Len(report.accepted) - 1) :
              ~KeyLess(SortKey(report.accepted[i + 1]), SortKey(report.accepted[i]))
        /\ \A q \in Orderings(report.proposal_sets) :
              LET r == _validate_provider_sets_strict(q, EvidenceById)
              IN  r.accepted = report.accepted /\ r.rejected = report.rejected

(***************************************************************************)
(* Claims about the frame of the validators (checked under Spec)           *)
(***************************************************************************)
\* the validator named by a report, run on a store
Revalidate(st, rep) ==
    IF rep.op = "validate_episode" THEN validate_episode(st, rep.subject[2])
    ELSE validate_recommendation(st, rep.subject[2])

NoDuplicateNoEmpty(seq) ==
    /\ \A i, j \in 1..Len(seq) : seq[i] = seq[j] => i = j
    /\ "" \notin Range(seq)

\* the position at which an id first occurs in the items of a call
FirstAt(items, id) == CHOOSE i \in 1..Len(items) : items[i] = id /\ \A j \in 1..(i - 1) : items[j] # id

\* result lists the ids of received, then the new non-empty ids of items, each
\* once, in the order in which they first occur
InFirstInsertionOrder(received, items, result) ==
    /\ IsPrefix(received, result)
    /\ LET new == SubSeq(result, Len(received) + 1, Len(result))
       IN  /\ Range(new) = Range(items) \ (Range(received) \cup {""})
           /\ \A i, j \in 1..Len(new) : i < j => FirstAt(items, new[i]) < FirstAt(items, new[j])

\* the ids an add_* or log_* call was given
ItemsOf(rep) == IF rep.name \in LogOps THEN <<rep.arg>> ELSE rep.arg

\* C30: every id list of every episode value, passed to the constructor or
\* built by add_* / log_* operations, has no id twice and no empty id and
\* lists ids in order of first insertion; adding ids that are already present
\* returns an episode equal to the receiver.
C30_IdListsDeduplicated ==
    /\ report.op \in {"DecisionEpisode", "episode_op"} =>
          \A f \in IdLists : NoDuplicateNoEmpty(report.held[f])
    /\ (report.op = "episode_op" /\ ~IsNone(report.result)) =>
          /\ InFirstInsertionOrder(report.receiver[IdListOf(report.name)], ItemsOf(report),
                                   report.result.v[IdListOf(report.name)])
          /\ Range(ItemsOf(report)) \subseteq Range(report.receiver[IdListOf(report.name)]) =>
                report.result.v = report.receiver

(***************************************************************************)
(* Claims about the atomicity of choose (checked under Spec)               *)
(***************************************************************************)
\* choose(store, episode_id, recommendation_id, chosen_option_id) raises:
\* one of its checks fails, or mark_acted refuses the option
ChooseRaises(st, eid, rid, oid) ==
    \/ choose_rejects(st, eid, rid, oid) # ""
    \/ mark_acted_raises(st.data["DecisionEpisode"][eid], Some(oid))

\* C28: choose / act_on_option is all-or-nothing: whenever it fails the store
\* is left as it was before the call - no ChoiceRecord has been stored and the
\* stored episode is unchanged.
C28_ChooseAllOrNothing ==
    [][\A eid \in EpisodeIds, rid \in {None} \cup {Some(r) : r \in RecIds}, oid \in OptionIds :
          (/\ ChooseRaises(Store, eid, rid, oid)
           /\ choose_rejects(Store, eid, rid, oid) = ""
           /\ minted'.ch = minted.ch + 1
           /\ [data |-> data', ids_by_type |-> ids_by_type']
                 = choose(Store, eid, rid, oid, FALSE, ChoiceIdPool[minted'.ch]))
          => (data' = data /\ ids_by_type' = ids_by_type)]_vars

(***************************************************************************)
(* Claims about concurrent callers on one episode (checked under SpecRace) *)
(***************************************************************************)
RaceEpisode == data["DecisionEpisode"]["ep1"]

BothReturned == gin.choose.pc = "returned" /\ gin.log_outcome.pc = "returned"

\* the stored episode lists the choice id and the outcome id that the two
\* calls appended, and is acted
KeepsBoth ==
    /\ gin.choose.id \in Range(RaceEpisode.choice_ids)
    /\ gin.log_outcome.id \in Range(RaceEpisode.outcome_ids)
    /\ RaceEpisode.acted

\* in a step the stored episode's id lists only grow and acted stays true
EpisodeGrows ==
    /\ \A f \in IdLists :
          IsPrefix(data["DecisionEpisode"]["ep1"][f], data'["DecisionEpisode"]["ep1"][f])
    /\ data["DecisionEpisode"]["ep1"].acted => data'["DecisionEpisode"]["ep1"].acted

\* C27 as stated: in any interleaving of choose and log_outcome on the same
\* episode, the stored episode after both have completed contains every id
\* either one appended and is acted; its id lists only ever grow and its acted
\* flag never returns to false.
C27_AnyInterleaving == [](BothReturned => KeepsBoth) /\ [][EpisodeGrows]_vars

\* C27, amended: when the calls of choose and log_outcome on the same episode
\* are serialized (no call reads the episode while another call is between
\* its read and its last put), the stored episode after both have completed
\* contains every id either one appended and is acted, and its id lists only
\* grow and its acted flag never returns to false.
C27_SerializedCalls ==
    /\ []((BothReturned /\ ~gin.overlapped) => KeepsBoth)
    /\ [][~gin'.overlapped => EpisodeGrows]_vars

C27_Witness ==
    /\ BothReturned
    /\ ~gin.overlapped
    /\ KeepsBoth
    /\ RaceEpisode.choice_ids = <<"ch_0", gin.choose.id>>
    /\ RaceEpisode.outcome_ids = <<"out_0", gin.log_outcome.id>>

(***************************************************************************)
(* Claims about concurrent callers of one store (checked under SpecThreads) *)
(***************************************************************************)
\* what list_ids returns and what get finds agree, and no id is listed twice
ListedIffFound(st) ==
    /\ \A id \in OptionIds : id \in Range(list_ids(st, "Option")) <=> has(st, "Option", id)
    /\ \A i, j \in 1..Len(list_ids(st, "Option")) :
          list_ids(st, "Option")[i] = list_ids(st, "Option")[j] => i = j

\* every value a read returned is a value that some put stored in full
ReadsWhole ==
    /\ report.op = "get" => (IsNone(report.result) \/ report.result.v \in ThreadArtifacts)
    /\ report.op = "resolve_many" => Range(report.result.found) \subseteq ThreadArtifacts

\* C26: under any interleaving of put, get, has, list_ids and resolve_many on
\* one store no caller observes a torn write: get returns absent or a value
\* that some put stored in full, list_ids returns an id if and only if get
\* finds it, and list_ids never contains an id twice - for the default
\* ArtifactStore as for the lock-guarded InMemoryArtifactStore.
C26_NoTornWrite ==
    /\ ReadsWhole
    /\ ListedIffFound(Store)
    /\ ListedIffFound(ims)

====
